---- MODULE Spec2Model ----
(***************************************************************************)
(* A model of the routing layer of or-tools                                *)
(* (src/trunk/src/constraint_solver/routing.cc): the index space built by  *)
(* SetStartEnd, the arc-cost cache of GetArcCost, the model life cycle     *)
(* (CloseModel, Solve), the route/assignment conversions, the compaction   *)
(* of assignments, the node-precedence filter and the pair operators;      *)
(* of the FlatZinc constraint dispatcher (flatzinc2/constraints.cc) with   *)
(* the presolver that runs before it; and of the symmetry graph of a       *)
(* pseudo-Boolean problem (sat/boolean_problem.cc).                        *)
(*                                                                         *)
(* C++ vectors are modelled as functions over 0..n-1, so that indices keep *)
(* the values they have in the source.  The CP solver itself is outside    *)
(* the repository's routing code: what the routing code asks of it         *)
(* (constraints posted, the outcome of a search) is recorded or drawn      *)
(* nondeterministically.                                                   *)
(***************************************************************************)
EXTENDS Integers, Sequences, FiniteSets, TLC

VARIABLES
  \* ---- RoutingModel: index space (fixed by the constructor / SetStartEnd)
  nodes_, vehicles_, start_end_count_,
  index_to_node_, node_to_index_, index_to_vehicle_, starts_, ends_,
  \* ---- RoutingModel: costs
  vehicle_cost_classes_, costs_, fixed_costs_, cost_cache_, homogeneous_costs_,
  \* ---- RoutingModel: life cycle and structure
  closed_, status_, time_limit_ms_, disjunctions_, node_to_disjunction_,
  dimensions_, constraints_, searches_built_,
  \* ---- solver variables the routing code reads: active_[i]->Max() and the
  \*      domain of vehicle_vars_[i]
  active_max_, vehicle_dom_,
  \* ---- assignments handled by the conversions and by CompactAssignment
  assignment_,
  \* ---- node-precedence filter
  pair_firsts_, pair_seconds_, filter_values_, node_path_starts_,
  \* ---- path operators (MakePairActive, PairRelocate): the synchronized next
  \*      values, the base nodes and the position of the enumeration
  op_nexts_, base_nodes_, base_paths_, end_nodes_, just_started_, inactive_pair_,
  \* ---- FzSolver: the constraints posted on the CP solver, the expressions
  \*      set for target variables, and whether extraction died (LOG(FATAL))
  fz_posted_, fz_extracted_, fz_status_,
  \* ---- FzPresolver and the FzModel it runs on: the model's constraints and
  \*      variable domains, the equivalences found, and the locals of Run
  fz_constraints_, fz_domains_, var_representative_map_,
  run_pc_, run_index_, run_changed_, run_changed_since_start_, run_result_,
  \* ---- RoutingModel: the search limits (NULL until the search is built) and
  \*      the time limit of the LNS sub-search
  lns_time_limit_ms_, limit_, ls_limit_, lns_limit_,
  \* ---- NodeDisjunctionFilter (its synchronized values are filter_values_)
  \*      and the domain of the cost variable it reads
  active_per_disjunction_, penalty_value_, current_objective_value_, cost_,
  \* ---- PathCumulFilter: the cumul variables' domains, the transit
  \*      evaluator, and the position of Accept and of AcceptPath's walk
  cumuls_, evaluator_, accept_pc_, touched_paths_, accept_i_, path_node_, path_cumul_,
  \* ---- RouteConstructor (its assignment_ is assignment_)
  routes_, in_route_, deleted_routes_, chains_, deleted_chains_, node_to_chain_index_,
  node_to_vehicle_class_index_, no_more_feasible_routes_, check_assignment_,
  \* ---- the domains of the next variables, as the first-solution builders
  \*      read them (FastOnePathBuilder's evaluator_ is evaluator_)
  nexts_,
  \* ---- the arguments the caller has prepared for the conversions
  args,
  \* ---- the last call made on the model, with its arguments and its result
  call,
  \* ---- history: fresh[i] holds while cost_cache_[i] holds no entry stored
  \*      before the last change of a fixed cost
  fresh

indexVars == <<nodes_, vehicles_, start_end_count_, index_to_node_,
               node_to_index_, index_to_vehicle_, starts_, ends_>>
costVars == <<vehicle_cost_classes_, costs_, fixed_costs_, cost_cache_,
              homogeneous_costs_, fresh>>
lifeVars == <<closed_, status_, time_limit_ms_, disjunctions_,
              node_to_disjunction_, dimensions_, constraints_, searches_built_>>
domVars == <<active_max_, vehicle_dom_>>
filterVars == <<pair_firsts_, pair_seconds_, filter_values_, node_path_starts_>>
opVars == <<op_nexts_, base_nodes_, base_paths_, end_nodes_, just_started_,
            inactive_pair_>>
fzVars == <<fz_posted_, fz_extracted_, fz_status_>>
preVars == <<fz_constraints_, fz_domains_, var_representative_map_,
             run_pc_, run_index_, run_changed_, run_changed_since_start_, run_result_>>
limitVars == <<lns_time_limit_ms_, limit_, ls_limit_, lns_limit_>>
disjunctionFilterVars == <<active_per_disjunction_, penalty_value_, current_objective_value_, cost_>>
cumulFilterVars == <<cumuls_, evaluator_, accept_pc_, touched_paths_, accept_i_, path_node_, path_cumul_>>
routeConstructorVars == <<routes_, in_route_, deleted_routes_, chains_, deleted_chains_, node_to_chain_index_, node_to_vehicle_class_index_, no_more_feasible_routes_, check_assignment_>>
nextsVars == <<nexts_>>
vars == <<indexVars, nextsVars, routeConstructorVars, cumulFilterVars, disjunctionFilterVars, limitVars, costVars, lifeVars, domVars, assignment_, filterVars, opVars,
          fzVars, preVars, args, call>>

kUnassigned == -1
kNoPenalty == -1
kNoDisjunction == -1

\* ------------------------------------------------------------------------
\* Small helpers for 0-based vectors
\* ------------------------------------------------------------------------
Vec(n, v) == [i \in 0..(n - 1) |-> v]

RECURSIVE SumSeq(_)
SumSeq(s) == IF s = <<>> THEN 0 ELSE Head(s) + SumSeq(Tail(s))

\* ------------------------------------------------------------------------
\* The index space
\* ------------------------------------------------------------------------

\* A model is built from a configuration: the number of nodes, the number of
\* vehicles and one (start node, end node) pair per vehicle.

StartEndCountStarts(cfg) ==
  Cardinality({cfg.start_end[v][1] : v \in 1..cfg.vehicles})

\* The constructors count the distinct depots (depot_set).
StartEndCount(cfg) ==
  Cardinality({cfg.start_end[v][1] : v \in 1..cfg.vehicles}
              \cup {cfg.start_end[v][2] : v \in 1..cfg.vehicles})

SizeOf(nodes, vehicles, start_end_count) == nodes + vehicles - start_end_count

\* Second loop of SetStartEnd: the first vehicle starting at a node takes the
\* node's own index, every later one a fresh index.
RECURSIVE AssignStarts(_, _, _)
AssignStarts(v, cfg, st) ==
  IF v = cfg.vehicles THEN st
  ELSE LET start == cfg.start_end[v + 1][1] IN
       IF start \notin st.node_set
       THEN AssignStarts(v + 1, cfg,
              [st EXCEPT !.node_set = @ \cup {start},
                         !.starts = [@ EXCEPT ![v] = st.node_to_index[start]],
                         !.index_to_vehicle =
                              [@ EXCEPT ![st.node_to_index[start]] = v]])
       ELSE AssignStarts(v + 1, cfg,
              [st EXCEPT !.starts = [@ EXCEPT ![v] = st.index],
                         !.index_to_node = [@ EXCEPT ![st.index] = start],
                         !.index_to_vehicle = [@ EXCEPT ![st.index] = v],
                         !.index = @ + 1])

\* Third loop of SetStartEnd: one end index per vehicle, in vehicle order.
RECURSIVE AssignEnds(_, _, _)
AssignEnds(v, cfg, st) ==
  IF v = cfg.vehicles THEN st
  ELSE AssignEnds(v + 1, cfg,
         [st EXCEPT !.index_to_node = [@ EXCEPT ![st.index] = cfg.start_end[v + 1][2]],
                    !.ends = [@ EXCEPT ![v] = st.index],
                    !.index_to_vehicle = [@ EXCEPT ![st.index] = v],
                    !.index = @ + 1])

SetStartEnd(cfg) ==
  LET size == SizeOf(cfg.nodes, cfg.vehicles, StartEndCount(cfg))
      startSet == {cfg.start_end[v][1] : v \in 1..cfg.vehicles}
      endSet == {cfg.start_end[v][2] : v \in 1..cfg.vehicles}
      \* first loop: the nodes that are a start, or are not an end, get the
      \* first indices in node order
      visit == {n \in 0..(cfg.nodes - 1) : n \in startSet \/ n \notin endSet}
      rank(n) == Cardinality({m \in visit : m < n})
      st0 == [index |-> Cardinality(visit),
              node_set |-> {},
              index_to_node |->
                [i \in 0..(size + cfg.vehicles - 1) |->
                   IF \E n \in visit : rank(n) = i
                   THEN CHOOSE n \in visit : rank(n) = i ELSE 0],
              node_to_index |->
                [n \in 0..(cfg.nodes - 1) |->
                   IF n \in visit THEN rank(n) ELSE kUnassigned],
              index_to_vehicle |-> Vec(size + cfg.vehicles, kUnassigned),
              starts |-> Vec(cfg.vehicles, 0),
              ends |-> Vec(cfg.vehicles, 0)]
  IN AssignEnds(0, cfg, AssignStarts(0, cfg, st0))

Size == SizeOf(nodes_, vehicles_, start_end_count_)
IsEnd(index) == index >= Size
Start(vehicle) == starts_[vehicle]
End(vehicle) == ends_[vehicle]
IndexToNodeIdentity(index) == index

IndexToNode(index) == index_to_node_[index]
\* NodeToIndex is called on nodes in [0, nodes): a node that is only an end
\* has no index and maps to kUnassigned.
NodeToIndex(node) == node_to_index_[node]
IsStart(index) == ~IsEnd(index) /\ index_to_vehicle_[index] # kUnassigned

InitIndex(cfg) ==
  LET st == SetStartEnd(cfg) IN
  /\ nodes_ = cfg.nodes
  /\ vehicles_ = cfg.vehicles
  /\ start_end_count_ = StartEndCount(cfg)
  /\ index_to_node_ = st.index_to_node
  /\ node_to_index_ = st.node_to_index
  /\ index_to_vehicle_ = st.index_to_vehicle
  /\ starts_ = st.starts
  /\ ends_ = st.ends

\* ------------------------------------------------------------------------
\* Costs: evaluators, cost classes, fixed costs and the arc-cost cache
\* ------------------------------------------------------------------------

\* The node evaluators a caller may install.  An evaluator is repeatable: a
\* pure function of its two nodes (CheckIsRepeatable).
Evaluators == {0, 1}
Run(evaluator, node_i, node_j) == (evaluator + 1) * (3 * node_i + node_j + 1)

\* The fixed costs a caller may set are 0..MaxFixedCost.
MaxFixedCost == 1

GetVehicleCostClass(vehicle) == vehicle_cost_classes_[vehicle]

EmptyCache == [node |-> kUnassigned, cost_class |-> kUnassigned, cost |-> 0]

InitCost ==
  /\ vehicle_cost_classes_ = Vec(vehicles_, -1)
  /\ costs_ = <<>>
  /\ fixed_costs_ = Vec(vehicles_, 0)
  /\ cost_cache_ = Vec(Size, EmptyCache)
  /\ homogeneous_costs_ = TRUE
  /\ fresh = Vec(Size, TRUE)

\* SetVehicleCostInternal: an evaluator seen before keeps its cost class, a
\* new one opens the next class.  The caller's guard is the CHECK that the
\* vehicle has no cost class yet.
SetVehicleCostInternal(classes, costs, vehicle, evaluator) ==
  IF \E c \in 1..Len(costs) : costs[c] = evaluator
  THEN [classes |-> [classes EXCEPT ![vehicle] =
                       (CHOOSE c \in 1..Len(costs) : costs[c] = evaluator) - 1],
        costs |-> costs]
  ELSE [classes |-> [classes EXCEPT ![vehicle] = Len(costs)],
        costs |-> Append(costs, evaluator)]

RECURSIVE SetCostFrom(_, _, _, _)
SetCostFrom(vehicle, classes, costs, evaluator) ==
  IF vehicle = vehicles_ THEN [classes |-> classes, costs |-> costs]
  ELSE LET r == SetVehicleCostInternal(classes, costs, vehicle, evaluator)
       IN SetCostFrom(vehicle + 1, r.classes, r.costs, evaluator)

\* The uncached computation of GetArcCost: the evaluator of the cost class,
\* plus the vehicle's fixed cost on the arc leaving a start towards a node
\* that is not an end; an arc from a start to an end costs 0.
ComputeArcCost(i, j, cost_class) ==
  IF ~IsStart(i)
  THEN Run(costs_[cost_class + 1], IndexToNode(i), IndexToNode(j))
  ELSE IF ~IsEnd(j)
       THEN Run(costs_[cost_class + 1], IndexToNode(i), IndexToNode(j))
            + fixed_costs_[index_to_vehicle_[i]]
       ELSE 0

CacheHitIgnoringClass(cache, j, cost_class) == cache.node = j

\* The test GetArcCost makes on the slot of i before it recomputes.
CacheHit(cache, j, cost_class) ==
  cache.node = j /\ cache.cost_class = cost_class

\* GetArcCost on a given cache: the cost returned, the cache afterwards, and
\* whether the slot of i was (re)written.
GetArcCostOn(cache, i, j, cost_class) ==
  IF cost_class >= 0
  THEN IF CacheHit(cache[i], j, cost_class)
       THEN [cost |-> cache[i].cost, cache |-> cache, stored |-> {}]
       ELSE LET cost == ComputeArcCost(i, j, cost_class) IN
            [cost |-> cost,
             cache |-> [cache EXCEPT ![i] = [node |-> j,
                                             cost_class |-> cost_class,
                                             cost |-> cost]],
             stored |-> {i}]
  ELSE [cost |-> 0, cache |-> cache, stored |-> {}]

\* GetCost(i, j, vehicle): the arc cost for the vehicle's cost class.
GetCostOn(cache, i, j, vehicle) ==
  IF i # j /\ vehicle >= 0
  THEN GetArcCostOn(cache, i, j, GetVehicleCostClass(vehicle))
  ELSE [cost |-> 0, cache |-> cache, stored |-> {}]

\* The arcs of vehicle's route: start -> route[1] -> ... -> route[n] -> end.
RouteArcs(vehicle, route) ==
  LET path == <<Start(vehicle)>> \o route \o <<End(vehicle)>>
  IN [k \in 1..(Len(path) - 1) |-> <<path[k], path[k + 1]>>]

\* GetCost summed over a sequence of arcs, one call after the other.
RECURSIVE SumArcCosts(_, _, _)
SumArcCosts(cache, arcs, vehicle) ==
  IF arcs = <<>> THEN [cost |-> 0, cache |-> cache, stored |-> {}]
  ELSE LET r == GetCostOn(cache, Head(arcs)[1], Head(arcs)[2], vehicle)
           rest == SumArcCosts(r.cache, Tail(arcs), vehicle)
       IN [cost |-> r.cost + rest.cost, cache |-> rest.cache,
           stored |-> r.stored \cup rest.stored]

\* ---- actions of the cost facet

SetCost(evaluator) ==
  /\ vehicles_ > 0
  /\ \A v \in 0..(vehicles_ - 1) : GetVehicleCostClass(v) = -1
  /\ LET r == SetCostFrom(0, vehicle_cost_classes_, costs_, evaluator) IN
     /\ vehicle_cost_classes_' = r.classes
     /\ costs_' = r.costs
  /\ homogeneous_costs_' = TRUE
  /\ call' = [op |-> "SetCost", evaluator |-> evaluator]
  /\ UNCHANGED <<fixed_costs_, cost_cache_, fresh>>

SetVehicleCost(vehicle, evaluator) ==
  /\ GetVehicleCostClass(vehicle) = -1
  /\ LET r == SetVehicleCostInternal(vehicle_cost_classes_, costs_, vehicle,
                                     evaluator) IN
     /\ vehicle_cost_classes_' = r.classes
     /\ costs_' = r.costs
  /\ homogeneous_costs_' = FALSE
  /\ call' = [op |-> "SetVehicleCost", vehicle |-> vehicle,
              evaluator |-> evaluator]
  /\ UNCHANGED <<fixed_costs_, cost_cache_, fresh>>

SetVehicleFixedCost(vehicle, cost) ==
  /\ fixed_costs_' = [fixed_costs_ EXCEPT ![vehicle] = cost]
  /\ fresh' = IF cost = fixed_costs_[vehicle] THEN fresh
              ELSE [i \in DOMAIN fresh |->
                      fresh[i] /\ cost_cache_[i].node = kUnassigned]
  /\ call' = [op |-> "SetVehicleFixedCost", vehicle |-> vehicle, cost |-> cost]
  /\ UNCHANGED <<vehicle_cost_classes_, costs_, cost_cache_, homogeneous_costs_>>

GetArcCost(i, j, cost_class) ==
  LET r == GetArcCostOn(cost_cache_, i, j, cost_class) IN
  /\ cost_cache_' = r.cache
  /\ fresh' = [k \in DOMAIN fresh |-> fresh[k] \/ k \in r.stored]
  /\ call' = [op |-> "GetArcCost", i |-> i, j |-> j, cost_class |-> cost_class,
              result |-> r.cost, was_fresh |-> fresh[i],
              hit |-> (cost_class >= 0 /\ r.stored = {})]
  /\ UNCHANGED <<vehicle_cost_classes_, costs_, fixed_costs_, homogeneous_costs_>>

\* The cost of a vehicle's route as the sum of GetCost over its arcs.
RouteCost(vehicle, route) ==
  LET r == SumArcCosts(cost_cache_, RouteArcs(vehicle, route), vehicle) IN
  /\ cost_cache_' = r.cache
  /\ fresh' = [k \in DOMAIN fresh |-> fresh[k] \/ k \in r.stored]
  /\ call' = [op |-> "RouteCost", vehicle |-> vehicle, route |-> route,
              result |-> r.cost]
  /\ UNCHANGED <<vehicle_cost_classes_, costs_, fixed_costs_, homogeneous_costs_>>


\* ------------------------------------------------------------------------
\* The other facets as the constructor leaves them
\* ------------------------------------------------------------------------
InitLife ==
  /\ closed_ = FALSE
  /\ status_ = "ROUTING_NOT_SOLVED"
  /\ disjunctions_ = <<>>
  /\ node_to_disjunction_ = Vec(Size, kNoDisjunction)
  /\ dimensions_ = <<>>
  /\ constraints_ = <<>>
  /\ searches_built_ = 0

InitDom ==
  /\ active_max_ = Vec(Size, 1)
  /\ vehicle_dom_ = Vec(Size + vehicles_, (-1)..(vehicles_ - 1))

InitFilter ==
  /\ pair_firsts_ = <<>>
  /\ pair_seconds_ = <<>>
  /\ filter_values_ = <<>>
  /\ node_path_starts_ = <<>>

\* A path operator that has not been started yet.
InitOperator ==
  /\ op_nexts_ = <<>>
  /\ base_nodes_ = <<>>
  /\ base_paths_ = <<>>
  /\ end_nodes_ = <<>>
  /\ just_started_ = FALSE
  /\ inactive_pair_ = 0

\* An FzSolver on which nothing has been extracted yet.
InitFzSolver ==
  /\ fz_posted_ = <<>>
  /\ fz_extracted_ = <<>>
  /\ fz_status_ = "ok"

\* A presolver that has not run, on an empty model.
InitPresolver ==
  /\ fz_constraints_ = <<>>
  /\ fz_domains_ = <<>>
  /\ var_representative_map_ = <<>>
  /\ run_pc_ = "idle"
  /\ run_index_ = 0
  /\ run_changed_ = FALSE
  /\ run_changed_since_start_ = FALSE
  /\ run_result_ = FALSE

\* The null pointer, as a value that compares with limit objects.
NULL == [null |-> TRUE]

\* The constructor leaves the three limits unset.
InitLimits ==
  /\ lns_time_limit_ms_ = 0
  /\ limit_ = NULL
  /\ ls_limit_ = NULL
  /\ lns_limit_ = NULL

\* No node-disjunction filter has been made; the cost variable is not
\* restricted.
InitDisjunctionFilter ==
  /\ active_per_disjunction_ = <<>>
  /\ penalty_value_ = 0
  /\ current_objective_value_ = 0
  /\ cost_ = [Min |-> 0, Max |-> 0]

\* No path-cumul filter has been made.
InitCumulFilter ==
  /\ cumuls_ = <<>>
  /\ evaluator_ = 0
  /\ accept_pc_ = "idle"
  /\ touched_paths_ = <<>>
  /\ accept_i_ = 0
  /\ path_node_ = 0
  /\ path_cumul_ = 0

\* No RouteConstructor has been made.
InitRouteConstructor ==
  /\ routes_ = <<>>
  /\ in_route_ = <<>>
  /\ deleted_routes_ = {}
  /\ chains_ = <<>>
  /\ deleted_chains_ = {}
  /\ node_to_chain_index_ = <<>>
  /\ node_to_vehicle_class_index_ = <<>>
  /\ no_more_feasible_routes_ = FALSE
  /\ check_assignment_ = FALSE

\* No next variable has been looked at.
InitNexts == nexts_ = <<>>

NoCall == [op |-> "none"]

\* ------------------------------------------------------------------------
\* Life cycle: disjunctions, dimensions, CloseModel, Solve
\* ------------------------------------------------------------------------

\* The model is exercised with at most MaxDisjunctions disjunctions and
\* MaxDimensions dimension declarations; penalties are 0..MaxPenalty; the
\* time limit and the wall time of a search are 0..MaxTime milliseconds.
MaxDisjunctions == 1
MaxDimensions == 1
MaxPenalty == 1
MaxTime == 2

\* AddDisjunctionInternal: the disjunction is appended and its nodes are
\* pointed at it.  There is no test of closed_.
AddDisjunctionInternal(nodes, penalty) ==
  LET size == Len(disjunctions_)
      indices == [k \in 1..Len(nodes) |-> node_to_index_[nodes[k]]]
  IN
  /\ \A k \in 1..Len(nodes) : node_to_index_[nodes[k]] # kUnassigned
  /\ disjunctions_' = Append(disjunctions_, [nodes |-> indices, penalty |-> penalty])
  /\ node_to_disjunction_' =
       [i \in DOMAIN node_to_disjunction_ |->
          IF \E k \in 1..Len(nodes) : indices[k] = i
          THEN size ELSE node_to_disjunction_[i]]
  /\ call' = [op |-> "AddDisjunction", nodes |-> nodes, penalty |-> penalty,
              was_closed |-> closed_]
  /\ UNCHANGED <<closed_, status_, time_limit_ms_, dimensions_, constraints_,
                 searches_built_>>

\* AddDimensionWithCapacityInternal: the cumul and transit variables of the
\* name are made once (GetOrMakeCumuls, GetOrMakeTransits), and a PathCumul
\* constraint is posted.  There is no test of closed_.
AddDimensionWithCapacityInternal(name) ==
  /\ dimensions_' = IF \E k \in 1..Len(dimensions_) : dimensions_[k] = name
                    THEN dimensions_ ELSE Append(dimensions_, name)
  /\ constraints_' = Append(constraints_, [kind |-> "PathCumul", name |-> name])
  /\ call' = [op |-> "AddDimension", name |-> name, was_closed |-> closed_]
  /\ UNCHANGED <<closed_, status_, time_limit_ms_, disjunctions_,
                 node_to_disjunction_, searches_built_>>

\* CreateDisjunction: the sum of the active variables of the nodes and of a
\* fresh boolean no_active_var is 1; a negative penalty fixes no_active_var
\* to 0, another one adds the cost element no_active_var * penalty.
CreateDisjunction(disjunction) ==
  [kind |-> "SumEquality",
   nodes |-> disjunctions_[disjunction + 1].nodes,
   no_active_max |-> IF disjunctions_[disjunction + 1].penalty < 0 THEN 0 ELSE 1,
   penalty |-> disjunctions_[disjunction + 1].penalty]

\* The constraints CloseModel posts, in its order.
CloseModelConstraints ==
  << [kind |-> "NoCycle"],
     [kind |-> "VehicleOfStartEnd"],
     [kind |-> "VehiclePathCumul"],
     [kind |-> "InactiveHasNoVehicle"] >>
  \o (IF Len(disjunctions_) = 0 THEN << [kind |-> "AllActive"] >> ELSE <<>>)
  \o << [kind |-> "EmptyRouteOwnEnd"] >>
  \o [d \in 1..Len(disjunctions_) |-> CreateDisjunction(d - 1)]

CloseModelAlways(closed) == FALSE

\* The test at the head of CloseModel.
CloseModelReturnsEarly(closed) == closed

\* CloseModel on the current state: the life-cycle variables afterwards.
CloseModelOn ==
  IF CloseModelReturnsEarly(closed_)
  THEN [closed |-> closed_, constraints |-> constraints_,
        searches_built |-> searches_built_]
  ELSE [closed |-> TRUE,
        constraints |-> constraints_ \o CloseModelConstraints,
        searches_built |-> searches_built_ + 1]

CloseModel ==
  LET r == CloseModelOn IN
  /\ closed_' = r.closed
  /\ constraints_' = r.constraints
  /\ searches_built_' = r.searches_built
  /\ call' = [op |-> "CloseModel", was_closed |-> closed_]
  /\ UNCHANGED <<status_, time_limit_ms_, disjunctions_, node_to_disjunction_,
                 dimensions_>>

SolveStatusStrict(solution_count, elapsed_time_ms) ==
  IF solution_count = 1 THEN "ROUTING_SUCCESS"
  ELSE IF elapsed_time_ms > time_limit_ms_ THEN "ROUTING_FAIL_TIMEOUT"
       ELSE "ROUTING_FAIL"

\* The status Solve sets from the collector's solution count and the wall
\* time the search took.
SolveStatus(solution_count, elapsed_time_ms) ==
  IF solution_count = 1 THEN "ROUTING_SUCCESS"
  ELSE IF elapsed_time_ms >= time_limit_ms_ THEN "ROUTING_FAIL_TIMEOUT"
       ELSE "ROUTING_FAIL"

\* Solve closes the model, runs the search and sets the status.  The search
\* is the solver's: it collects a solution or not, takes some wall time, and
\* is stopped by the time limit or ends by itself.  The limit is polled, so
\* it stops a search only once the limit has elapsed, and a search that ends
\* by itself may have run past it.
Solve(solution_count, elapsed_time_ms, stopped_by_time_limit) ==
  LET r == CloseModelOn IN
  /\ stopped_by_time_limit => elapsed_time_ms >= time_limit_ms_
  /\ closed_' = r.closed
  /\ constraints_' = r.constraints
  /\ searches_built_' = r.searches_built
  /\ status_' = SolveStatus(solution_count, elapsed_time_ms)
  /\ call' = [op |-> "Solve", solution_count |-> solution_count,
              elapsed_time_ms |-> elapsed_time_ms,
              stopped_by_time_limit |-> stopped_by_time_limit,
              result |-> IF solution_count = 1 THEN "solution" ELSE "NULL"]
  /\ UNCHANGED <<time_limit_ms_, disjunctions_, node_to_disjunction_, dimensions_>>

\* ---- what the posted constraints allow

ActiveVectors == [0..(Size - 1) -> {0, 1}]

ActiveSum(a, nodes) == SumSeq([k \in 1..Len(nodes) |-> a[nodes[k]]])

\* An assignment of the active variables satisfies the posted constraints on
\* them: every node active under AllActive, and for every SumEquality a value
\* of no_active_var within its domain that brings the sum to 1.
Satisfies(a, c) ==
  CASE c.kind = "AllActive" -> \A i \in DOMAIN a : active_max_[i] # 0 => a[i] = 1
    [] c.kind = "SumEquality" ->
         \E no_active \in 0..c.no_active_max : ActiveSum(a, c.nodes) + no_active = 1
    [] OTHER -> TRUE

Feasible(a) ==
  /\ \A i \in DOMAIN a : a[i] <= active_max_[i]
  /\ \A k \in 1..Len(constraints_) : Satisfies(a, constraints_[k])

\* The penalty charged for every inactive node of a disjunction.
PenaltyCostPerInactiveNode(a) ==
  SumSeq([k \in 1..Len(constraints_) |->
            IF constraints_[k].kind = "SumEquality" /\ constraints_[k].penalty >= 0
            THEN (Len(constraints_[k].nodes) - ActiveSum(a, constraints_[k].nodes))
                   * constraints_[k].penalty
            ELSE 0])

\* The penalty cost elements of the cost variable under a feasible a.
PenaltyCost(a) ==
  SumSeq([k \in 1..Len(constraints_) |->
            IF constraints_[k].kind = "SumEquality" /\ constraints_[k].penalty >= 0
            THEN (1 - ActiveSum(a, constraints_[k].nodes)) * constraints_[k].penalty
            ELSE 0])

\* ------------------------------------------------------------------------
\* SpecCost: cost classes, fixed costs and arc-cost queries on one model
\* ------------------------------------------------------------------------
CostConfigs ==
  { [nodes |-> 2, vehicles |-> 2, start_end |-> << <<0, 0>>, <<0, 0>> >>] }

\* The routes whose cost is summed: every sequence of distinct visit indices
\* of at most two nodes.
VisitIndices == {i \in 0..(Size - 1) : ~IsStart(i)}
CostRoutes ==
  {<<>>} \cup {<<a>> : a \in VisitIndices}
         \cup {<<p[1], p[2]>> : p \in {q \in VisitIndices \X VisitIndices : q[1] # q[2]}}

InitCostSpec ==
  /\ \E cfg \in CostConfigs : InitIndex(cfg)
  /\ InitCost
  /\ InitLife
  /\ time_limit_ms_ = 0
  /\ InitDom
  /\ InitFilter
  /\ InitFzSolver
  /\ InitPresolver
  /\ InitNexts
  /\ InitRouteConstructor
  /\ InitCumulFilter
  /\ InitDisjunctionFilter
  /\ InitLimits
  /\ InitOperator
  /\ assignment_ = <<>>
  /\ args = NoCall
  /\ call = NoCall

CostFrame == UNCHANGED <<indexVars, nextsVars, routeConstructorVars, cumulFilterVars, disjunctionFilterVars, limitVars, lifeVars, domVars, assignment_, filterVars, opVars, fzVars, preVars,
              args>>

\* Arc costs are queried from the indices vehicle 0 can leave (its start and
\* the visit indices); the other vehicles are there for their cost classes.
QuerySources == {i \in 0..(Size - 1) : index_to_vehicle_[i] \in {kUnassigned, 0}}
QueryTargets == {j \in 0..(Size + vehicles_ - 1) :
                   index_to_vehicle_[j] = kUnassigned \/ j = End(0)}

DoSetCost == CostFrame /\ \E e \in Evaluators : SetCost(e)
DoSetVehicleCost ==
  CostFrame /\ \E v \in 0..(vehicles_ - 1), e \in Evaluators : SetVehicleCost(v, e)
DoSetVehicleFixedCost ==
  CostFrame /\ \E v \in 0..(vehicles_ - 1), c \in 0..MaxFixedCost :
                 SetVehicleFixedCost(v, c)
DoGetArcCost ==
  CostFrame /\ \E i \in QuerySources, j \in QueryTargets,
                  c \in (-1)..(Len(costs_) - 1) : i # j /\ GetArcCost(i, j, c)
DoRouteCost == CostFrame /\ \E r \in CostRoutes : RouteCost(0, r)

NextCost ==
  \/ DoSetCost
  \/ DoSetVehicleCost
  \/ DoSetVehicleFixedCost
  \/ DoGetArcCost
  \/ DoRouteCost

SpecCost == InitCostSpec /\ [][NextCost]_vars

\* C1: a GetArcCost(i, j, c) call with c >= 0, made while the slot of i holds
\* no entry older than the last change of a fixed cost (the evaluator of a
\* cost class never changes), returns what the uncached computation of
\* (i, j, c) returns, whatever was queried for i before; and the call is
\* answered from the slot only when the slot's successor and cost class are
\* the queried ones.
C1_CachedEqualsUncached ==
  (call.op = "GetArcCost" /\ call.cost_class >= 0)
    => /\ call.was_fresh
            => call.result = ComputeArcCost(call.i, call.j, call.cost_class)
       /\ call.hit => /\ cost_cache_[call.i].node = call.j
                      /\ cost_cache_[call.i].cost_class = call.cost_class

\* C1 witness: a query of a start arc answered from the cache, with a fixed
\* cost charged and a second cost class installed.
C1_Witness ==
  /\ call.op = "GetArcCost" /\ call.cost_class >= 0 /\ call.was_fresh
  /\ call.hit
  /\ Len(costs_) = 2
  /\ IsStart(call.i) /\ ~IsEnd(call.j)
  /\ fixed_costs_[index_to_vehicle_[call.i]] > 0
  /\ call.result = Run(costs_[call.cost_class + 1], IndexToNode(call.i),
                       IndexToNode(call.j)) + fixed_costs_[index_to_vehicle_[call.i]]

\* What C10 states of a route's cost: the evaluator's cost of every arc (none
\* when the vehicle has no cost evaluator), plus the vehicle's fixed cost once
\* when the route visits a node; 0 for an empty route.
ExpectedRouteCost(vehicle, route) ==
  IF route = <<>> THEN 0
  ELSE LET arcs == RouteArcs(vehicle, route)
           c == GetVehicleCostClass(vehicle)
       IN SumSeq([k \in 1..Len(arcs) |->
                    IF c >= 0
                    THEN Run(costs_[c + 1], IndexToNode(arcs[k][1]),
                             IndexToNode(arcs[k][2]))
                    ELSE 0])
          + fixed_costs_[vehicle]

\* C10: summing GetArcCost over the arcs of a vehicle's route (the vehicle
\* having a cost evaluator) charges the vehicle's fixed cost exactly once
\* when the route visits a node, and an empty route costs 0.
C10_FixedCostChargedOnce ==
  (call.op = "RouteCost" /\ GetVehicleCostClass(call.vehicle) >= 0)
    => call.result = ExpectedRouteCost(call.vehicle, call.route)

\* ------------------------------------------------------------------------
\* SpecLife: one model through AddDisjunction, AddDimension, SetVehicleCost,
\* CloseModel and Solve, in any order
\* ------------------------------------------------------------------------
LifeConfigs ==
  { [nodes |-> 3, vehicles |-> 1, start_end |-> << <<0, 0>> >>] }

\* The node lists a disjunction is declared with: the visit nodes, alone or
\* together.
VisitNodes == {n \in 0..(nodes_ - 1) :
                 node_to_index_[n] # kUnassigned /\ ~IsStart(node_to_index_[n])}
DisjunctionNodeLists ==
  {<<n>> : n \in VisitNodes}
    \cup {<<p[1], p[2]>> : p \in {q \in VisitNodes \X VisitNodes : q[1] < q[2]}}

DimensionNames == {"time"}

InitLifeSpec ==
  /\ \E cfg \in LifeConfigs : InitIndex(cfg)
  /\ InitCost
  /\ InitLife
  /\ time_limit_ms_ \in 1..MaxTime
  /\ InitDom
  /\ InitFilter
  /\ InitFzSolver
  /\ InitPresolver
  /\ InitNexts
  /\ InitRouteConstructor
  /\ InitCumulFilter
  /\ InitDisjunctionFilter
  /\ InitLimits
  /\ InitOperator
  /\ assignment_ = <<>>
  /\ args = NoCall
  /\ call = NoCall

LifeFrame == UNCHANGED <<indexVars, nextsVars, routeConstructorVars, cumulFilterVars, disjunctionFilterVars, limitVars, costVars, domVars, assignment_, filterVars, opVars, fzVars, preVars,
              args>>

DoAddDisjunction ==
  /\ LifeFrame
  /\ Len(disjunctions_) < MaxDisjunctions
  /\ \E nodes \in DisjunctionNodeLists, penalty \in {kNoPenalty} \cup 0..MaxPenalty :
       AddDisjunctionInternal(nodes, penalty)

DoAddDimension ==
  /\ LifeFrame
  /\ Cardinality({k \in 1..Len(constraints_) : constraints_[k].kind = "PathCumul"})
       < MaxDimensions
  /\ \E name \in DimensionNames : AddDimensionWithCapacityInternal(name)

DoCloseModel == LifeFrame /\ CloseModel

DoSolve ==
  /\ LifeFrame
  /\ \E solution_count \in {0, 1}, elapsed_time_ms \in 0..MaxTime,
        stopped_by_time_limit \in BOOLEAN :
       Solve(solution_count, elapsed_time_ms, stopped_by_time_limit)

NextLife ==
  \/ DoAddDisjunction
  \/ DoAddDimension
  \/ DoSetVehicleCost
  \/ DoCloseModel
  \/ DoSolve

SpecLife == InitLifeSpec /\ [][NextLife]_vars

\* C5: once the model is closed, every assignment of the active variables
\* that the posted constraints allow has at most one active node in each
\* disjunction of the model, exactly one in a disjunction without penalty,
\* and the penalty cost elements add p for each disjunction with a penalty
\* p >= 0 that has no active node, and nothing else.
C5_DisjunctionsEnforced ==
  closed_ =>
    \A a \in ActiveVectors :
      Feasible(a) =>
        /\ \A d \in 1..Len(disjunctions_) :
             /\ ActiveSum(a, disjunctions_[d].nodes) <= 1
             /\ disjunctions_[d].penalty = kNoPenalty
                  => ActiveSum(a, disjunctions_[d].nodes) = 1
        /\ PenaltyCost(a) =
             SumSeq([d \in 1..Len(disjunctions_) |->
                       IF disjunctions_[d].penalty >= 0
                          /\ ActiveSum(a, disjunctions_[d].nodes) = 0
                       THEN disjunctions_[d].penalty ELSE 0])

\* C7: once the model is closed, no call changes its dimensions, its
\* disjunctions, its constraints or its cost classes: a mutation is refused.
C7_MutationAfterCloseRefused ==
  [][closed_ => UNCHANGED <<disjunctions_, node_to_disjunction_, dimensions_,
                            constraints_, vehicle_cost_classes_, costs_>>]_vars

\* C8: a closed model stays closed, and a CloseModel (or the CloseModel that
\* Solve starts with) on a closed model posts no constraint and builds no
\* search again.
C8_CloseModelIdempotent ==
  [][closed_ => /\ closed_'
                /\ call'.op \in {"CloseModel", "Solve"}
                     => UNCHANGED <<constraints_, searches_built_, disjunctions_,
                                    node_to_disjunction_, dimensions_, costVars,
                                    indexVars, domVars>>]_vars

\* C8 witness: CloseModel was called on a model already closed and solved.
C8_Witness ==
  /\ call.op = "CloseModel" /\ call.was_closed
  /\ closed_ /\ searches_built_ = 1
  /\ status_ = "ROUTING_SUCCESS"
  /\ Len(disjunctions_) > 0

\* C9 as stated: with no solution collected, ROUTING_FAIL_TIMEOUT exactly when
\* the time limit stopped the search, ROUTING_FAIL exactly when it did not.
C9_TimeoutIffStoppedByLimit ==
  call.op = "Solve" =>
    /\ call.solution_count = 1
         => call.result = "solution" /\ status_ = "ROUTING_SUCCESS"
    /\ call.solution_count # 1
         => /\ call.result = "NULL"
            /\ status_ = "ROUTING_FAIL_TIMEOUT" <=> call.stopped_by_time_limit
            /\ status_ = "ROUTING_FAIL" <=> ~call.stopped_by_time_limit

\* C9 amended: with no solution collected, ROUTING_FAIL_TIMEOUT exactly when
\* the wall time of the call reached the time limit (so whenever the limit
\* stopped the search), ROUTING_FAIL exactly when it stayed below.
C9_TimeoutIffElapsedReachesLimit ==
  call.op = "Solve" =>
    /\ call.solution_count = 1
         => call.result = "solution" /\ status_ = "ROUTING_SUCCESS"
    /\ call.solution_count # 1
         => /\ call.result = "NULL"
            /\ status_ = "ROUTING_FAIL_TIMEOUT"
                 <=> call.elapsed_time_ms >= time_limit_ms_
            /\ status_ = "ROUTING_FAIL" <=> call.elapsed_time_ms < time_limit_ms_
            /\ call.stopped_by_time_limit => status_ = "ROUTING_FAIL_TIMEOUT"

\* C9 witness: a search that ended by itself exactly at the time limit, with
\* no solution.
C9_Witness ==
  /\ call.op = "Solve" /\ call.solution_count = 0
  /\ ~call.stopped_by_time_limit
  /\ call.elapsed_time_ms = time_limit_ms_
  /\ status_ = "ROUTING_FAIL_TIMEOUT"

\* ------------------------------------------------------------------------
\* Routes and assignments: RoutesToAssignment, AssignmentToRoutes
\* ------------------------------------------------------------------------

\* An assignment holds a value for the variables added to it; the variables
\* are named by their array and index.
NextVar(index) == <<"nexts_", index>>
Contains(assignment, var) == var \in DOMAIN assignment
\* assignment->Add(var) when it is not contained, then SetValue(var, value).
SetValue(assignment, var, value) ==
  [x \in DOMAIN assignment \cup {var} |-> IF x = var THEN value ELSE assignment[x]]

TooManyRoutesOffByOne(num_routes) == num_routes >= vehicles_

\* The test of the number of routes against the vehicles of the model.
TooManyRoutes(num_routes) == num_routes > vehicles_

\* Inner loop of RoutesToAssignment over the nodes route[i..] of a vehicle.
\* st holds from_index, visited_indices, the assignment and the result so
\* far ("running" until a return).  With DCHECKs compiled in, NodeToIndex
\* aborts on a node without an index; without them it returns kUnassigned.
RECURSIVE RouteLoop(_, _, _, _, _, _)
RouteLoop(route, i, vehicle, st, ignore_inactive_nodes, dchecks) ==
  IF i > Len(route) THEN st
  ELSE
    LET to_node == route[i] IN
    IF to_node < 0 \/ to_node >= nodes_ THEN [st EXCEPT !.result = "false"]
    ELSE IF dchecks /\ node_to_index_[to_node] = kUnassigned
         THEN [st EXCEPT !.result = "abort"]
    ELSE
      LET to_index == NodeToIndex(to_node) IN
      IF to_index < 0 \/ to_index >= Size THEN [st EXCEPT !.result = "false"]
      ELSE IF active_max_[to_index] = 0
           THEN IF ignore_inactive_nodes
                THEN RouteLoop(route, i + 1, vehicle, st, ignore_inactive_nodes, dchecks)
                ELSE [st EXCEPT !.result = "false"]
      ELSE IF to_index \in st.visited_indices THEN [st EXCEPT !.result = "false"]
      ELSE IF vehicle \notin vehicle_dom_[to_index]
           THEN [st EXCEPT !.visited_indices = @ \cup {to_index},
                           !.result = "false"]
      ELSE RouteLoop(route, i + 1, vehicle,
                     [st EXCEPT !.visited_indices = @ \cup {to_index},
                                !.assignment = SetValue(@, NextVar(st.from_index), to_index),
                                !.from_index = to_index],
                     ignore_inactive_nodes, dchecks)

\* First loop of RoutesToAssignment: the vehicles that have a route.
RECURSIVE RoutesLoop(_, _, _, _, _, _)
RoutesLoop(routes, vehicle, st, ignore_inactive_nodes, close_routes, dchecks) ==
  IF vehicle = Len(routes) \/ st.result # "running" THEN st
  ELSE IF Start(vehicle) \in st.visited_indices THEN [st EXCEPT !.result = "false"]
  ELSE
    LET st1 == RouteLoop(routes[vehicle + 1], 1, vehicle,
                         [st EXCEPT !.from_index = Start(vehicle),
                                    !.visited_indices = @ \cup {Start(vehicle)}],
                         ignore_inactive_nodes, dchecks)
        st2 == IF st1.result = "running" /\ close_routes
               THEN [st1 EXCEPT !.assignment =
                                   SetValue(@, NextVar(st1.from_index), End(vehicle))]
               ELSE st1
    IN RoutesLoop(routes, vehicle + 1, st2, ignore_inactive_nodes, close_routes, dchecks)

\* Second loop: the remaining vehicles are not used.
RECURSIVE RemainingVehicles(_, _, _)
RemainingVehicles(vehicle, st, close_routes) ==
  IF vehicle >= vehicles_ \/ st.result # "running" THEN st
  ELSE IF Start(vehicle) \in st.visited_indices THEN [st EXCEPT !.result = "false"]
  ELSE RemainingVehicles(vehicle + 1,
         [st EXCEPT !.visited_indices = @ \cup {Start(vehicle)},
                    !.assignment = IF close_routes
                                   THEN SetValue(@, NextVar(Start(vehicle)), End(vehicle))
                                   ELSE @],
         close_routes)

\* Last loop: the indices not visited point to themselves.
RECURSIVE DeactivateOthers(_, _)
DeactivateOthers(index, st) ==
  IF index = Size THEN st
  ELSE DeactivateOthers(index + 1,
         IF index \in st.visited_indices THEN st
         ELSE [st EXCEPT !.assignment = SetValue(@, NextVar(index), index)])

\* RoutesToAssignment(routes, ignore_inactive_nodes, close_routes, assignment):
\* the result ("true", "false", or "abort" on a failed DCHECK) and the
\* assignment as the call leaves it.
RoutesToAssignment(routes, ignore_inactive_nodes, close_routes, assignment, dchecks) ==
  LET st0 == [result |-> "running", visited_indices |-> {}, from_index |-> 0,
              assignment |-> assignment]
  IN
  IF ~closed_ THEN [st0 EXCEPT !.result = "false"]
  ELSE IF TooManyRoutes(Len(routes)) THEN [st0 EXCEPT !.result = "false"]
  ELSE
    LET st1 == RoutesLoop(routes, 0, st0, ignore_inactive_nodes, close_routes, dchecks)
        st2 == RemainingVehicles(Len(routes), st1, close_routes)
        st3 == IF st2.result = "running" /\ close_routes
               THEN DeactivateOthers(0, st2) ELSE st2
    IN IF st3.result = "running" THEN [st3 EXCEPT !.result = "true"] ELSE st3

\* The walk of AssignmentToRoutes from current_index to the end of a
\* vehicle's path: the nodes pushed; ok is FALSE when a CHECK fails (a next
\* variable that the assignment does not contain, or a cycle).
RECURSIVE RouteFrom(_, _, _)
RouteFrom(assignment, current_index, num_visited_nodes) ==
  IF IsEnd(current_index) THEN [ok |-> TRUE, route |-> <<>>]
  ELSE IF ~Contains(assignment, NextVar(current_index))
       THEN [ok |-> FALSE, route |-> <<>>]
  ELSE IF num_visited_nodes + 1 > Size THEN [ok |-> FALSE, route |-> <<>>]
  ELSE LET rest == RouteFrom(assignment, assignment[NextVar(current_index)],
                             num_visited_nodes + 1)
       IN [ok |-> rest.ok, route |-> <<IndexToNode(current_index)>> \o rest.route]

\* The route AssignmentToRoutes reads for a vehicle.
VehicleRoute(assignment, vehicle) ==
  IF ~Contains(assignment, NextVar(Start(vehicle)))
  THEN [ok |-> FALSE, route |-> <<>>]
  ELSE RouteFrom(assignment, assignment[NextVar(Start(vehicle))], 0)

\* AssignmentToRoutes(assignment, routes): one route per vehicle; ok is FALSE
\* when a CHECK of the function fails.
AssignmentToRoutes(assignment) ==
  IF ~closed_ THEN [ok |-> FALSE, routes |-> <<>>]
  ELSE IF \E vehicle \in 0..(vehicles_ - 1) : ~VehicleRoute(assignment, vehicle).ok
       THEN [ok |-> FALSE, routes |-> <<>>]
  ELSE [ok |-> TRUE,
        routes |-> [v \in 1..vehicles_ |-> VehicleRoute(assignment, v - 1).route]]

\* ------------------------------------------------------------------------
\* SpecRoutes: a model with two vehicles from depot 0 to depot 1 (node 1 is
\* only an end and has no index), its solver variables restricted by the
\* caller, closed, and routes converted to assignments and back
\* ------------------------------------------------------------------------
RoutesConfig == [nodes |-> 4, vehicles |-> 2, start_end |-> << <<0, 1>>, <<0, 1>> >>]

\* A call lists at most MaxListed nodes over its routes.
MaxListed == 2

\* The nodes a route may name: the nodes of the model and one past them.
RouteNodeValues == 0..RoutesConfig.nodes

RECURSIVE RoutesUpTo(_)
RoutesUpTo(n) ==
  IF n = 0 THEN {<<>>}
  ELSE RoutesUpTo(n - 1)
         \cup {Append(r, x) : r \in {q \in RoutesUpTo(n - 1) : Len(q) = n - 1},
                              x \in RouteNodeValues}

\* The collections of k routes that list at most n nodes together.
RECURSIVE Collections(_, _)
Collections(k, n) ==
  IF k = 0 THEN {<<>>}
  ELSE UNION {{<<r>> \o c : c \in Collections(k - 1, n - Len(r))} : r \in RoutesUpTo(n)}

\* Up to one route more than there are vehicles.
RouteCollections ==
  UNION {Collections(k, MaxListed) : k \in 0..(RoutesConfig.vehicles + 1)}

\* The caller prepares the arguments of the conversion before the model is
\* closed: the routes and the two flags.
InitRoutesSpec ==
  /\ InitIndex(RoutesConfig)
  /\ InitCost
  /\ InitLife
  /\ time_limit_ms_ = 0
  /\ InitDom
  /\ InitFilter
  /\ InitFzSolver
  /\ InitPresolver
  /\ InitNexts
  /\ InitRouteConstructor
  /\ InitCumulFilter
  /\ InitDisjunctionFilter
  /\ InitLimits
  /\ InitOperator
  /\ assignment_ = <<>>
  /\ args \in [routes : RouteCollections, ignore_inactive_nodes : BOOLEAN,
               close_routes : BOOLEAN]
  /\ call = NoCall

\* ActiveVar(index)->SetMax(0) by the caller: the node can only be inactive.
ActiveVarSetMax(index) ==
  /\ active_max_[index] # 0
  /\ active_max_' = [active_max_ EXCEPT ![index] = 0]
  /\ call' = [op |-> "ActiveVarSetMax"]
  /\ UNCHANGED <<vehicle_dom_, assignment_>>

\* VehicleVar(index)->RemoveValue(vehicle) by the caller.
VehicleVarRemoveValue(index, vehicle) ==
  /\ vehicle \in vehicle_dom_[index]
  /\ vehicle_dom_' = [vehicle_dom_ EXCEPT ![index] = @ \ {vehicle}]
  /\ call' = [op |-> "VehicleVarRemoveValue"]
  /\ UNCHANGED <<active_max_, assignment_>>

RoutesFrame == UNCHANGED <<indexVars, nextsVars, routeConstructorVars, cumulFilterVars, disjunctionFilterVars, limitVars, costVars, lifeVars, filterVars, opVars, fzVars, preVars,
              args>>

\* The variables the caller restricts: the active variables of the start of
\* vehicle 0 and of the first visit index, and the vehicle variable of the
\* first visit index, which loses the last vehicle.
DoActiveVarSetMax ==
  RoutesFrame /\ \E index \in 0..1 : ActiveVarSetMax(index)
DoVehicleVarRemoveValue ==
  RoutesFrame /\ VehicleVarRemoveValue(1, vehicles_ - 1)

\* RoutesToAssignment of the prepared arguments on an assignment just made
\* by the caller (solver->MakeAssignment()), kept as assignment_.  The build
\* has its DCHECKs compiled in or not.
DoRoutesToAssignment ==
  /\ RoutesFrame
  /\ \E dchecks \in BOOLEAN :
       LET r == RoutesToAssignment(args.routes, args.ignore_inactive_nodes,
                                   args.close_routes, <<>>, dchecks)
       IN /\ assignment_' = r.assignment
          /\ call' = [op |-> "RoutesToAssignment",
                      dchecks |-> dchecks,
                      result |-> r.result]
          /\ UNCHANGED domVars

\* AssignmentToRoutes on assignment_; source is the call the assignment
\* comes from when that call was made just before.
DoAssignmentToRoutes ==
  /\ RoutesFrame
  /\ LET r == AssignmentToRoutes(assignment_) IN
     /\ call' = [op |-> "AssignmentToRoutes", ok |-> r.ok, routes |-> r.routes,
                 source |-> IF call.op = "RoutesToAssignment" THEN call ELSE NoCall]
     /\ UNCHANGED <<domVars, assignment_>>

NextRoutes ==
  \/ DoCloseModel
  \/ DoActiveVarSetMax
  \/ DoVehicleVarRemoveValue
  \/ DoRoutesToAssignment
  \/ DoAssignmentToRoutes

SpecRoutes == InitRoutesSpec /\ [][NextRoutes]_vars

\* The places (route, position) of the prepared routes and what is listed
\* there.
Places ==
  UNION {{<<r, k>> : k \in 1..Len(args.routes[r])} : r \in 1..Len(args.routes)}
NodeAt(p) == args.routes[p[1]][p[2]]
VehicleAt(p) == p[1] - 1
InRange(p) == NodeAt(p) >= 0 /\ NodeAt(p) < nodes_
HasIndex(p) == InRange(p) /\ NodeToIndex(NodeAt(p)) >= 0 /\ NodeToIndex(NodeAt(p)) < Size
IndexAt(p) == NodeToIndex(NodeAt(p))
Inactive(p) == HasIndex(p) /\ active_max_[IndexAt(p)] = 0
Padded(routes) ==
  [v \in 1..vehicles_ |-> IF v <= Len(routes) THEN routes[v] ELSE <<>>]

\* C2: on a closed model, when RoutesToAssignment accepts routes with
\* close_routes = true and every listed node is active, AssignmentToRoutes of
\* the assignment it produced returns the routes, padded with empty routes
\* up to the number of vehicles.
C2_RoutesRoundTrip ==
  (/\ call.op = "AssignmentToRoutes"
   /\ call.source.op = "RoutesToAssignment"
   /\ call.source.result = "true"
   /\ args.close_routes
   /\ \A p \in Places : ~Inactive(p))
    => call.ok /\ call.routes = Padded(args.routes)

\* C2 witness: one route visiting node 3 then node 2 was accepted for a model
\* of two vehicles and read back with the empty route of the second vehicle.
C2_Witness ==
  /\ call.op = "AssignmentToRoutes"
  /\ call.source.op = "RoutesToAssignment"
  /\ call.source.result = "true"
  /\ args.close_routes
  /\ args.routes = << <<3, 2>> >>
  /\ call.ok
  /\ call.routes = << <<3, 2>>, <<>> >>

\* The cases in which C3 says RoutesToAssignment returns false.
C3_StatedFalse ==
  \/ ~closed_
  \/ Len(args.routes) > vehicles_
  \/ \E p \in Places : ~InRange(p)
  \/ \E p \in Places : InRange(p) /\ ~HasIndex(p)
  \/ \E p, q \in Places : p # q /\ HasIndex(p) /\ HasIndex(q) /\ IndexAt(p) = IndexAt(q)
  \/ \E p \in Places : HasIndex(p) /\ VehicleAt(p) \notin vehicle_dom_[IndexAt(p)]
  \/ ~args.ignore_inactive_nodes /\ \E p \in Places : Inactive(p)

\* C3 as stated: RoutesToAssignment returns false in the stated cases and
\* true in every other case.
C3_FalseExactlyWhenStated ==
  call.op = "RoutesToAssignment" =>
    /\ C3_StatedFalse => call.result = "false"
    /\ ~C3_StatedFalse => call.result = "true"

\* A listed place makes the call fail: its node is out of range or has no
\* index, or it is inactive and inactive nodes are not ignored, or it is not
\* inactive and its index is the start of a vehicle, is listed at another
\* place that is not inactive, or does not allow the vehicle of its route.
C3_PlaceFails(p) ==
  \/ ~HasIndex(p)
  \/ Inactive(p) /\ ~args.ignore_inactive_nodes
  \/ /\ HasIndex(p) /\ ~Inactive(p)
     /\ \/ IsStart(IndexAt(p))
        \/ \E q \in Places : q # p /\ HasIndex(q) /\ ~Inactive(q)
                             /\ IndexAt(q) = IndexAt(p)
        \/ VehicleAt(p) \notin vehicle_dom_[IndexAt(p)]

C3_AmendedFalse ==
  \/ ~closed_
  \/ Len(args.routes) > vehicles_
  \/ \E p \in Places : C3_PlaceFails(p)

\* C3 amended: RoutesToAssignment does not return true exactly when the model
\* is not closed, there are more routes than vehicles, or a listed place
\* fails; it then returns false, except that a build with DCHECKs aborts in
\* NodeToIndex on a listed node that has no index; in every other case it
\* returns true.  An inactive node listed with ignore_inactive_nodes = true
\* is skipped whatever else holds of it.
C3_FalseExactlyWhenPlaceFails ==
  call.op = "RoutesToAssignment" =>
    /\ call.result = "true" <=> ~C3_AmendedFalse
    /\ call.result \in {"true", "false", "abort"}
    /\ call.result = "abort"
         => /\ call.dchecks
            /\ \E p \in Places : InRange(p) /\ NodeToIndex(NodeAt(p)) = kUnassigned
    /\ ~call.dchecks => call.result # "abort"

\* C3 witness: ignore_inactive_nodes = true and a route that lists the
\* inactive node 2 twice, where the vehicle is not allowed either: accepted.
C3_Witness ==
  /\ call.op = "RoutesToAssignment"
  /\ call.result = "true"
  /\ args.ignore_inactive_nodes
  /\ args.routes = << <<>>, <<2, 2>> >>
  /\ active_max_[1] = 0
  /\ 1 \notin vehicle_dom_[1]

\* ------------------------------------------------------------------------
\* Compaction of assignments: CompactAssignment, ReplaceUnusedVehicle
\* ------------------------------------------------------------------------
VehicleVar(index) == <<"vehicle_vars_", index>>
TransitVar(name, index) == <<"transits_", name, index>>
CumulVar(name, index) == <<"cumuls_", name, index>>

Next(assignment, index) == assignment[NextVar(index)]

IsVehicleUsed(assignment, vehicle) == ~IsEnd(assignment[NextVar(Start(vehicle))])

\* The walk of RouteCanBeUsedByVehicle from current_index to the end.
RECURSIVE RouteAllowsVehicle(_, _, _)
RouteAllowsVehicle(assignment, current_index, vehicle) ==
  IF IsEnd(current_index) THEN TRUE
  ELSE IF vehicle \notin vehicle_dom_[current_index] THEN FALSE
  ELSE RouteAllowsVehicle(assignment, Next(assignment, current_index), vehicle)

RouteCanBeUsedByVehicle(assignment, start_index, vehicle) ==
  RouteAllowsVehicle(assignment,
                     IF IsStart(start_index) THEN Next(assignment, start_index)
                     ELSE start_index,
                     vehicle)

\* Second part of ReplaceUnusedVehicle: along the moved route every vehicle
\* variable takes the unused vehicle and the last next variable its end.
RECURSIVE UpdateRoute(_, _, _)
UpdateRoute(compact_assignment, current_index, unused_vehicle) ==
  IF IsEnd(current_index) THEN compact_assignment
  ELSE
    LET a1 == SetValue(compact_assignment, VehicleVar(current_index), unused_vehicle)
        next_index == Next(a1, current_index)
        a2 == IF IsEnd(next_index)
              THEN SetValue(a1, NextVar(current_index), End(unused_vehicle))
              ELSE a1
    IN UpdateRoute(a2, next_index, unused_vehicle)

\* Third part of ReplaceUnusedVehicle, for the dimensions d.. of the model:
\* the transits at the two starts and the cumuls at the two ends are
\* swapped; ok is FALSE when the assignment holds the transit variable of
\* one of the two starts only.
RECURSIVE UpdateDimensions(_, _, _, _)
UpdateDimensions(compact_assignment, d, unused_vehicle, active_vehicle) ==
  IF d > Len(dimensions_) THEN [ok |-> TRUE, assignment |-> compact_assignment]
  ELSE
    LET name == dimensions_[d]
        unused_vehicle_transit_var == TransitVar(name, Start(unused_vehicle))
        active_vehicle_transit_var == TransitVar(name, Start(active_vehicle))
        unused_vehicle_cumul_var == CumulVar(name, End(unused_vehicle))
        active_vehicle_cumul_var == CumulVar(name, End(active_vehicle))
    IN
    IF Contains(compact_assignment, unused_vehicle_transit_var)
         # Contains(compact_assignment, active_vehicle_transit_var)
    THEN [ok |-> FALSE, assignment |-> compact_assignment]
    ELSE
      LET a1 == IF Contains(compact_assignment, unused_vehicle_transit_var)
                THEN SetValue(SetValue(compact_assignment,
                                       unused_vehicle_transit_var,
                                       compact_assignment[active_vehicle_transit_var]),
                              active_vehicle_transit_var,
                              compact_assignment[unused_vehicle_transit_var])
                ELSE compact_assignment
          a2 == SetValue(SetValue(a1, unused_vehicle_cumul_var,
                                  a1[active_vehicle_cumul_var]),
                         active_vehicle_cumul_var, a1[unused_vehicle_cumul_var])
      IN UpdateDimensions(a2, d + 1, unused_vehicle, active_vehicle)

ReplaceUnusedVehicle(unused_vehicle, active_vehicle, compact_assignment) ==
  LET active_vehicle_next == compact_assignment[NextVar(Start(active_vehicle))]
      a1 == SetValue(compact_assignment, NextVar(Start(unused_vehicle)),
                     active_vehicle_next)
      a2 == SetValue(a1, NextVar(Start(active_vehicle)), End(active_vehicle))
      a3 == UpdateRoute(a2, active_vehicle_next, unused_vehicle)
  IN UpdateDimensions(a3, 1, unused_vehicle, active_vehicle)

\* The search of CompactAssignment for the last vehicle that can give its
\* route to vehicle, from swap_vehicle downwards.
RECURSIVE FindSwapVehicle(_, _, _, _)
FindSwapVehicle(compact_assignment, vehicle, swap_vehicle, has_more_vehicles_with_route) ==
  IF swap_vehicle <= vehicle
  THEN [swap_vehicle |-> swap_vehicle,
        has_more_vehicles_with_route |-> has_more_vehicles_with_route]
  ELSE IF ~IsVehicleUsed(compact_assignment, swap_vehicle)
       THEN FindSwapVehicle(compact_assignment, vehicle, swap_vehicle - 1,
                            has_more_vehicles_with_route)
  ELSE IF \/ IndexToNode(Start(vehicle)) # IndexToNode(Start(swap_vehicle))
          \/ IndexToNode(End(vehicle)) # IndexToNode(End(swap_vehicle))
       THEN FindSwapVehicle(compact_assignment, vehicle, swap_vehicle - 1, TRUE)
  ELSE IF RouteCanBeUsedByVehicle(compact_assignment, Start(swap_vehicle), vehicle)
       THEN [swap_vehicle |-> swap_vehicle, has_more_vehicles_with_route |-> TRUE]
  ELSE FindSwapVehicle(compact_assignment, vehicle, swap_vehicle - 1, TRUE)

\* The loop of CompactAssignment over the vehicles but the last.
RECURSIVE CompactLoop(_, _)
CompactLoop(compact_assignment, vehicle) ==
  IF vehicle >= vehicles_ - 1 THEN [null |-> FALSE, assignment |-> compact_assignment]
  ELSE IF IsVehicleUsed(compact_assignment, vehicle)
       THEN CompactLoop(compact_assignment, vehicle + 1)
  ELSE
    LET f == FindSwapVehicle(compact_assignment, vehicle, vehicles_ - 1, FALSE) IN
    IF f.swap_vehicle = vehicle
    THEN IF f.has_more_vehicles_with_route
         THEN [null |-> TRUE, assignment |-> <<>>]
         ELSE [null |-> FALSE, assignment |-> compact_assignment]
    ELSE LET r == ReplaceUnusedVehicle(vehicle, f.swap_vehicle, compact_assignment) IN
         IF ~r.ok THEN [null |-> TRUE, assignment |-> <<>>]
         ELSE CompactLoop(r.assignment, vehicle + 1)

\* CompactAssignment(assignment): NULL or the compacted copy.  The flag
\* routing_check_compact_assignment is set by default; check_assignment is
\* the answer of the solver's CheckAssignment.
CompactAssignment(assignment, check_assignment) ==
  IF ~homogeneous_costs_ THEN [null |-> TRUE, assignment |-> <<>>]
  ELSE LET r == CompactLoop(assignment, 0) IN
       IF r.null THEN r
       ELSE IF ~check_assignment THEN [null |-> TRUE, assignment |-> <<>>]
       ELSE r

\* ------------------------------------------------------------------------
\* SpecCompact: models of three vehicles, all from depot 0 or the last one
\* from depot 1, with costs, fixed costs and dimensions set, closed, and
\* complete assignments of routes over the nodes 2 and 3 compacted
\* ------------------------------------------------------------------------
CompactConfigs ==
  { [nodes |-> 4, vehicles |-> 3,
     start_end |-> << <<0, 0>>, <<0, 0>>, <<0, 0>> >>],
    [nodes |-> 4, vehicles |-> 3,
     start_end |-> << <<0, 0>>, <<0, 0>>, <<1, 1>> >>] }

\* One route per vehicle, no node on two routes or twice on one.
CompactRoute == {<<>>, <<2>>, <<3>>, <<2, 3>>, <<3, 2>>}
CompactRouteCollections ==
  {c \in [1..3 -> CompactRoute] :
     \A n \in {2, 3} :
       Cardinality({v \in 1..3 : \E k \in 1..Len(c[v]) : c[v][k] = n}) <= 1}

\* The assignments the caller holds: the transit variables of every index,
\* of no index, or of the start of vehicle 0 only.
TransitChoices == {"all", "none", "first"}

InitCompactSpec ==
  /\ \E cfg \in CompactConfigs : InitIndex(cfg)
  /\ InitCost
  /\ InitLife
  /\ time_limit_ms_ = 0
  /\ InitDom
  /\ InitFilter
  /\ InitFzSolver
  /\ InitPresolver
  /\ InitNexts
  /\ InitRouteConstructor
  /\ InitCumulFilter
  /\ InitDisjunctionFilter
  /\ InitLimits
  /\ InitOperator
  /\ assignment_ = <<>>
  /\ args \in [routes : CompactRouteCollections, transits : TransitChoices]
  /\ call = NoCall

\* The vehicle whose route visits index, kUnassigned when none does.
VehicleOf(routes, index) ==
  IF index_to_vehicle_[index] # kUnassigned THEN index_to_vehicle_[index]
  ELSE IF \E v \in 1..Len(routes) : \E k \in 1..Len(routes[v]) :
            NodeToIndex(routes[v][k]) = index
       THEN (CHOOSE v \in 1..Len(routes) : \E k \in 1..Len(routes[v]) :
               NodeToIndex(routes[v][k]) = index) - 1
  ELSE kUnassigned

\* A complete assignment of the routes: the next variables as
\* RoutesToAssignment sets them with close_routes, the vehicle variable of
\* every index, and for every dimension the cumul variables and the chosen
\* transit variables, each holding its index.
RoutesSolution(routes, transits) ==
  LET nexts == RoutesToAssignment(routes, FALSE, TRUE, <<>>, FALSE).assignment
      vehicle_keys == {VehicleVar(i) : i \in 0..(Size + vehicles_ - 1)}
      names == {dimensions_[d] : d \in 1..Len(dimensions_)}
      cumul_keys == {CumulVar(n, i) : n \in names, i \in 0..(Size + vehicles_ - 1)}
      transit_keys ==
        {TransitVar(n, i) : n \in names,
                            i \in IF transits = "all" THEN 0..(Size - 1)
                                  ELSE IF transits = "first" THEN {Start(0)}
                                  ELSE {}}
  IN [x \in DOMAIN nexts \cup vehicle_keys \cup cumul_keys \cup transit_keys |->
        IF x \in DOMAIN nexts THEN nexts[x]
        ELSE IF x \in vehicle_keys THEN VehicleOf(routes, x[2])
        ELSE x[3]]

CompactFrame ==
  UNCHANGED <<indexVars, nextsVars, routeConstructorVars, cumulFilterVars, disjunctionFilterVars, limitVars, costVars, lifeVars, domVars, assignment_, filterVars, opVars, fzVars, preVars,
              args>>

\* One vehicle gets a cost evaluator of its own: the costs are no longer
\* homogeneous.
DoSetFirstVehicleCost == CostFrame /\ SetVehicleCost(0, 0)

\* The vehicle variable of index 2 loses vehicle 0.
DoForbidFirstVehicle == RoutesFrame /\ VehicleVarRemoveValue(2, 0)

\* CompactAssignment on the caller's complete assignment of a closed model;
\* there is one when RoutesToAssignment accepts the routes.
DoCompactAssignment ==
  /\ CompactFrame
  /\ closed_
  /\ RoutesToAssignment(args.routes, FALSE, TRUE, <<>>, FALSE).result = "true"
  /\ \E check_assignment \in BOOLEAN :
       LET input == RoutesSolution(args.routes, args.transits) IN
       call' = [op |-> "CompactAssignment", input |-> input,
                check_assignment |-> check_assignment,
                result |-> CompactAssignment(input, check_assignment)]

NextCompact ==
  \/ DoSetCost
  \/ DoSetFirstVehicleCost
  \/ DoSetVehicleFixedCost
  \/ DoAddDimension
  \/ DoForbidFirstVehicle
  \/ DoCloseModel
  \/ DoCompactAssignment

SpecCompact == InitCompactSpec /\ [][NextCompact]_vars

\* The arcs of the vehicle's path in an assignment, from its start.
RECURSIVE PathArcs(_, _)
PathArcs(assignment, index) ==
  IF IsEnd(index) THEN <<>>
  ELSE <<<<index, Next(assignment, index)>>>> \o PathArcs(assignment, Next(assignment, index))

\* The total cost of an assignment: for every vehicle the arc costs of its
\* path, the vehicle's fixed cost included on the first arc of a used one.
TotalCost(assignment) ==
  SumSeq([v \in 1..vehicles_ |->
            LET arcs == PathArcs(assignment, Start(v - 1)) IN
            SumSeq([k \in 1..Len(arcs) |->
                      IF GetVehicleCostClass(v - 1) >= 0
                      THEN ComputeArcCost(arcs[k][1], arcs[k][2],
                                          GetVehicleCostClass(v - 1))
                      ELSE 0])])

UsedPrefix(assignment) ==
  \E k \in 0..vehicles_ :
    /\ \A v \in 0..(k - 1) : IsVehicleUsed(assignment, v)
    /\ \A v \in k..(vehicles_ - 1) : ~IsVehicleUsed(assignment, v)

\* C4: whenever CompactAssignment returns an assignment, the used vehicles
\* are a prefix [0, k) of the vehicles in it, and its total cost (arc costs
\* plus vehicle fixed costs) is the total cost of the input assignment.
C4_CompactKeepsCost ==
  (call.op = "CompactAssignment" /\ ~call.result.null)
    => /\ UsedPrefix(call.result.assignment)
       /\ TotalCost(call.result.assignment) = TotalCost(call.input)

\* The first half of C4 alone.
C4_Prefix ==
  (call.op = "CompactAssignment" /\ ~call.result.null)
    => UsedPrefix(call.result.assignment)

\* ------------------------------------------------------------------------
\* The node-precedence filter: BasePathFilter, NodePrecedenceFilter
\* ------------------------------------------------------------------------

\* NodePrecedenceFilter(nexts, nexts_size, next_domain_size, pairs): both
\* vectors start unassigned and every pair writes its two slots, in order.
RECURSIVE AssignPairs(_, _, _)
AssignPairs(pairs, i, st) ==
  IF i > Len(pairs) THEN st
  ELSE AssignPairs(pairs, i + 1,
         [pair_firsts |-> [st.pair_firsts EXCEPT ![pairs[i][1]] = pairs[i][2]],
          pair_seconds |-> [st.pair_seconds EXCEPT ![pairs[i][2]] = pairs[i][1]]])

NodePrecedenceFilter(pairs) ==
  LET next_domain_size == Size + vehicles_
      st == AssignPairs(pairs, 1, [pair_firsts |-> Vec(next_domain_size, kUnassigned),
                                   pair_seconds |-> Vec(next_domain_size, kUnassigned)])
  IN
  /\ pair_firsts_' = st.pair_firsts
  /\ pair_seconds_' = st.pair_seconds
  /\ node_path_starts_' = Vec(next_domain_size, 0)
  /\ filter_values_' = Vec(Size, 0)

\* The nodes OnSynchronize marks from node on: the chain up to and including
\* the first value that is not below nexts_size.
RECURSIVE ChainNodes(_, _)
ChainNodes(values, node) ==
  IF node >= Size THEN {node}
  ELSE {node} \cup ChainNodes(values, values[node])

\* BasePathFilter::OnSynchronize on the synchronized values: the path starts
\* are the indices without a predecessor, taken in increasing order; every
\* node of a start's chain is given that start.
OnSynchronize(values) ==
  LET path_starts == {i \in 0..(Size - 1) : \A j \in 0..(Size - 1) : values[j] # i}
  IN [i \in 0..(Size + vehicles_ - 1) |->
        IF \E s \in path_starts : i \in ChainNodes(values, s)
        THEN CHOOSE s \in path_starts :
               /\ i \in ChainNodes(values, s)
               /\ \A s2 \in path_starts : i \in ChainNodes(values, s2) => s2 <= s
        ELSE kUnassigned]

\* Synchronize(assignment): the filter copies the values of its variables and
\* runs OnSynchronize.
Synchronize(assignment) ==
  LET values == [i \in 0..(Size - 1) |-> assignment[NextVar(i)]] IN
  /\ filter_values_' = values
  /\ node_path_starts_' = OnSynchronize(values)
  /\ call' = [op |-> "Synchronize"]
  /\ UNCHANGED <<pair_firsts_, pair_seconds_>>

\* BasePathFilter::GetNext: the value of the delta's element when the delta
\* holds the variable and the element is bound, kUnassigned when it is not
\* bound, the synchronized value otherwise.
GetNext(container, node) ==
  IF node \in DOMAIN container
  THEN IF container[node].bound THEN container[node].value ELSE kUnassigned
  ELSE filter_values_[node]

PrecedenceIgnoringSeconds(node, visited) ==
  pair_firsts_[node] # kUnassigned /\ pair_firsts_[node] \in visited

\* The two tests of NodePrecedenceFilter::AcceptPath on a node: it is a first
\* whose second has been visited, or a second whose first has not.
PrecedenceBroken(node, visited) ==
  \/ pair_firsts_[node] # kUnassigned /\ pair_firsts_[node] \in visited
  \/ pair_seconds_[node] # kUnassigned /\ pair_seconds_[node] \notin visited

\* NodePrecedenceFilter::AcceptPath from node on.
RECURSIVE AcceptPathFrom(_, _, _, _)
AcceptPathFrom(container, node, visited, path_length) ==
  IF node >= Size THEN TRUE
  ELSE IF path_length > Size THEN FALSE
  ELSE IF PrecedenceBroken(node, visited) THEN FALSE
  ELSE LET next == GetNext(container, node) IN
       IF next = kUnassigned THEN TRUE
       ELSE AcceptPathFrom(container, next, visited \cup {node}, path_length + 1)

AcceptPath(container, path_start) == AcceptPathFrom(container, path_start, {}, 1)

\* BasePathFilter::Accept, first part: the starts of the paths of the
\* variables the delta holds.
TouchedPaths(container) ==
  {node_path_starts_[index] : index \in DOMAIN container} \ {kUnassigned}

\* BasePathFilter::Accept(delta, deltadelta).
Accept(container) ==
  /\ call' = [op |-> "Accept",
              touched_paths |-> TouchedPaths(container),
              result |-> \A start \in TouchedPaths(container) :
                           AcceptPath(container, start)]
  /\ UNCHANGED <<pair_firsts_, pair_seconds_, filter_values_, node_path_starts_>>

\* ------------------------------------------------------------------------
\* SpecFilter: a model of two vehicles from depot 0 with pickup and delivery
\* pairs; CloseModel builds the search and with it the node-precedence
\* filter, the local search synchronizes the filter with an assignment and
\* asks it about a delta
\* ------------------------------------------------------------------------
FilterConfig == [nodes |-> 4, vehicles |-> 2, start_end |-> << <<0, 0>>, <<0, 0>> >>]

\* At most MaxPairs pairs are declared, the synchronized routes visit at most
\* MaxVisited nodes, and a delta holds at most MaxDelta variables.
MaxPairs == 2
MaxVisited == 2
MaxDelta == 2

\* The pairs (pickup, delivery) that may be declared, as indices: the nodes
\* 1 and 2 are pickups of the delivery node 3.
PairChoices == {<<1, 3>>, <<2, 3>>}
PairLists ==
  UNION {[1..n -> PairChoices] : n \in 1..MaxPairs}

\* The routes of the synchronized assignment: one route per vehicle over the
\* nodes 1..3, no node twice.
FilterRoute ==
  {r \in UNION {[1..n -> 1..3] : n \in 0..3} :
     \A i, j \in 1..Len(r) : i # j => r[i] # r[j]}
FilterRouteCollections ==
  {c \in [1..2 -> FilterRoute] :
     /\ Len(c[1]) + Len(c[2]) <= MaxVisited
     /\ \A i \in 1..Len(c[1]), j \in 1..Len(c[2]) : c[1][i] # c[2][j]}

\* The deltas: elements for at most MaxDelta next variables, each bound to an
\* index that is not a start, or not bound.
DeltaElements ==
  {[bound |-> TRUE, value |-> v] : v \in {1, 2, 3, 5, 6}}
    \cup {[bound |-> FALSE, value |-> 0]}
Deltas ==
  UNION {[vs -> DeltaElements] :
           vs \in {s \in SUBSET (0..4) : Cardinality(s) <= MaxDelta}}

InitFilterSpec ==
  /\ InitIndex(FilterConfig)
  /\ InitCost
  /\ InitLife
  /\ time_limit_ms_ = 0
  /\ InitDom
  /\ InitFilter
  /\ InitFzSolver
  /\ InitPresolver
  /\ InitNexts
  /\ InitRouteConstructor
  /\ InitCumulFilter
  /\ InitDisjunctionFilter
  /\ InitLimits
  /\ InitOperator
  /\ assignment_ = <<>>
  /\ args \in [pairs : PairLists, routes : FilterRouteCollections, delta : Deltas]
  /\ call = NoCall

\* CloseModel; building the search makes the filter from the declared pairs.
DoCloseModelWithFilter ==
  /\ CloseModel
  /\ IF closed_ THEN UNCHANGED filterVars ELSE NodePrecedenceFilter(args.pairs)
  /\ UNCHANGED <<indexVars, nextsVars, routeConstructorVars, cumulFilterVars, disjunctionFilterVars, limitVars, costVars, domVars, assignment_, opVars, fzVars, preVars, args>>

FilterFrame == UNCHANGED <<indexVars, nextsVars, routeConstructorVars, cumulFilterVars, disjunctionFilterVars, limitVars, costVars, lifeVars, domVars, assignment_, opVars, fzVars, preVars,
              args>>

\* The local search synchronizes the filter with the assignment of the
\* routes.
DoSynchronize ==
  /\ FilterFrame
  /\ closed_
  /\ Synchronize(RoutesToAssignment(args.routes, FALSE, TRUE, <<>>, FALSE).assignment)

\* The local search asks the synchronized filter about the delta.
DoAccept ==
  /\ FilterFrame
  /\ call.op \in {"Synchronize", "Accept"}
  /\ Accept(args.delta)

NextFilter ==
  \/ DoCloseModelWithFilter
  \/ DoSynchronize
  \/ DoAccept

SpecFilter == InitFilterSpec /\ [][NextFilter]_vars

\* The path from node on after the delta, as the nodes below Size() in order;
\* the walk is cut after fuel nodes.
RECURSIVE PathAfter(_, _, _)
PathAfter(container, node, fuel) ==
  IF node >= Size \/ node = kUnassigned \/ fuel = 0 THEN <<>>
  ELSE <<node>> \o PathAfter(container, GetNext(container, node), fuel - 1)

Position(path, node) ==
  IF \E k \in 1..Len(path) : path[k] = node
  THEN CHOOSE k \in 1..Len(path) : path[k] = node /\ \A j \in 1..(k - 1) : path[j] # node
  ELSE 0

FullyBound(container) == \A i \in DOMAIN container : container[i].bound

PrecedenceHolds(pairs) ==
  \A start \in call.touched_paths :
    LET path == PathAfter(args.delta, start, Size) IN
    \A k \in 1..Len(pairs) :
      Position(path, pairs[k][2]) # 0
        => /\ Position(path, pairs[k][1]) # 0
           /\ Position(path, pairs[k][1]) < Position(path, pairs[k][2])

\* C6: when the filter accepts a fully bound delta, on every touched path
\* after the delta every declared pair whose second node is on the path has
\* its first node before it on that path.
C6_AcceptedPathsKeepPrecedence ==
  (call.op = "Accept" /\ call.result /\ FullyBound(args.delta))
    => PrecedenceHolds(args.pairs)

\* C6 where no node belongs to two declared pairs.
C6_DisjointPairs ==
  (/\ call.op = "Accept" /\ call.result /\ FullyBound(args.delta)
   /\ \A i, j \in 1..Len(args.pairs) :
        i # j => {args.pairs[i][1], args.pairs[i][2]}
                   \cap {args.pairs[j][1], args.pairs[j][2]} = {})
    => PrecedenceHolds(args.pairs)

\* ------------------------------------------------------------------------
\* The index space for every choice of start/end pairs
\* ------------------------------------------------------------------------

\* Models of 1..MaxNodes nodes and 1..MaxVehicles vehicles; every vehicle
\* starts and ends at any node of the model, so vehicles may share a start
\* and a node may be a start and an end.
MaxNodes == 3
MaxVehicles == 2
IndexConfigs ==
  UNION { { [nodes |-> n, vehicles |-> v, start_end |-> se] :
              se \in [1..v -> (0..(n - 1)) \X (0..(n - 1))] } :
          n \in 1..MaxNodes, v \in 1..MaxVehicles }

InitIndexSpec ==
  /\ \E cfg \in IndexConfigs : InitIndex(cfg) /\ args = [start_end |-> cfg.start_end]
  /\ InitCost
  /\ InitLife
  /\ time_limit_ms_ = 0
  /\ InitDom
  /\ InitFilter
  /\ InitFzSolver
  /\ InitPresolver
  /\ InitNexts
  /\ InitRouteConstructor
  /\ InitCumulFilter
  /\ InitDisjunctionFilter
  /\ InitLimits
  /\ InitOperator
  /\ assignment_ = <<>>
  /\ call = NoCall

IndexFrame ==
  UNCHANGED <<indexVars, nextsVars, routeConstructorVars, cumulFilterVars, disjunctionFilterVars, limitVars, costVars, lifeVars, domVars, assignment_, filterVars, opVars, fzVars, preVars,
              args>>

DoStart ==
  IndexFrame /\ \E vehicle \in 0..(vehicles_ - 1) :
    call' = [op |-> "Start", vehicle |-> vehicle, result |-> Start(vehicle)]
DoEnd ==
  IndexFrame /\ \E vehicle \in 0..(vehicles_ - 1) :
    call' = [op |-> "End", vehicle |-> vehicle, result |-> End(vehicle)]
DoIsStart ==
  IndexFrame /\ \E index \in 0..(Size + vehicles_ - 1) :
    call' = [op |-> "IsStart", index |-> index, result |-> IsStart(index)]
DoIsEnd ==
  IndexFrame /\ \E index \in 0..(Size + vehicles_ - 1) :
    call' = [op |-> "IsEnd", index |-> index, result |-> IsEnd(index)]
DoNodeToIndex ==
  IndexFrame /\ \E node \in 0..(nodes_ - 1) :
    call' = [op |-> "NodeToIndex", node |-> node, result |-> NodeToIndex(node)]

NextIndex ==
  \/ DoStart
  \/ DoEnd
  \/ DoIsStart
  \/ DoIsEnd
  \/ DoNodeToIndex

SpecIndex == InitIndexSpec /\ [][NextIndex]_vars

\* C11: after SetStartEnd, whatever the start/end pairs, End(v) = Size() + v,
\* so the ends are exactly the indices Size()..Size() + vehicles - 1 (the
\* indices IsEnd answers true on); every start index and every index of a
\* node is below Size(); and IsStart(i) holds exactly for the indices below
\* Size() that SetStartEnd gave to a vehicle.
C11_EndsFormTail ==
  /\ \A v \in 0..(vehicles_ - 1) : End(v) = Size + v /\ Start(v) \in 0..(Size - 1)
  /\ {End(v) : v \in 0..(vehicles_ - 1)} = Size..(Size + vehicles_ - 1)
  /\ \A n \in 0..(nodes_ - 1) :
       NodeToIndex(n) # kUnassigned => NodeToIndex(n) \in 0..(Size - 1)
  /\ \A i \in 0..(Size + vehicles_ - 1) :
       /\ IsEnd(i) <=> \E v \in 0..(vehicles_ - 1) : End(v) = i
       /\ IsStart(i) <=> (i < Size /\ \E v \in 0..(vehicles_ - 1) : Start(v) = i)
  /\ call.op = "End" => call.result = Size + call.vehicle
  /\ call.op = "Start" => call.result < Size
  /\ call.op = "NodeToIndex" => call.result < Size
  /\ call.op = "IsEnd" => (call.result <=> call.index \in Size..(Size + vehicles_ - 1))
  /\ call.op = "IsStart" =>
       (call.result <=> (call.index < Size
                         /\ index_to_vehicle_[call.index] # kUnassigned))

\* Two vehicles share their start node, which is also the end of one of
\* them, and the end of the second vehicle has been asked for.
C11_Witness ==
  /\ vehicles_ = 2
  /\ args.start_end[1][1] = args.start_end[2][1]
  /\ args.start_end[2][2] = args.start_end[1][1]
  /\ args.start_end[1][2] # args.start_end[1][1]
  /\ Start(0) # Start(1)
  /\ call.op = "End" /\ call.vehicle = 1 /\ call.result = Size + 1

\* ------------------------------------------------------------------------
\* Path operators: the enumeration of base nodes (PathOperator) and the
\* pair operators built on it
\* ------------------------------------------------------------------------

\* The operator's view of the synchronized assignment: op_nexts_[i] is the
\* next of i for i < Size(); an inactive node is its own next.
OldNext(node) == op_nexts_[node]
IsPathEnd(i) == i >= Size
IsInactiveIn(nexts, i) == ~IsPathEnd(i) /\ nexts[i] = i
IsInactive(i) == IsInactiveIn(op_nexts_, i)

RECURSIVE IncreasingSeq(_)
IncreasingSeq(s) ==
  IF s = {} THEN <<>>
  ELSE LET least == CHOOSE x \in s : \A y \in s : x <= y
       IN <<least>> \o IncreasingSeq(s \ {least})

\* path_starts_: the active nodes no node points to, in index order.
PathStartsOf(nexts) ==
  IncreasingSeq({i \in 0..(Size - 1) :
                   /\ nexts[i] # i
                   /\ \A j \in 0..(Size - 1) : j # i => nexts[j] # i})
StartNodeIn(nexts, paths, i) == PathStartsOf(nexts)[paths[i] + 1]

\* The nodes from node to the end of its path, following values.
RECURSIVE ChainFrom(_, _, _)
ChainFrom(values, node, fuel) ==
  IF fuel = 0 THEN <<>>
  ELSE IF IsPathEnd(node) THEN <<node>>
  ELSE <<node>> \o ChainFrom(values, values[node], fuel - 1)
OnSamePath(nexts, a, b) ==
  \E s \in 1..Len(PathStartsOf(nexts)) :
    LET chain == ChainFrom(nexts, PathStartsOf(nexts)[s], Size + 1)
    IN /\ \E k \in 1..Len(chain) : chain[k] = a
       /\ \E k \in 1..Len(chain) : chain[k] = b

\* The two pair operators differ in the number of base nodes and in the three
\* hooks they override.
BaseNodeCount(op) == IF op = "MakePairActive" THEN 2 ELSE 3

OnSamePathNever(op, base_index) == FALSE

OnSamePathAsPreviousBase(op, base_index) ==
  IF op = "MakePairActive" THEN TRUE ELSE base_index = 2

RestartAtPathStartOnSynchronize(op) == op = "PairRelocate"

\* is_first_ of PairRelocateOperator: the nodes that are the first of a pair.
IsFirst(pairs, node) == \E p \in 1..Len(pairs) : pairs[p][1] = node

GetBaseNodeRestartPosition(op, pairs, nexts, base_index, nodes, paths) ==
  IF op = "MakePairActive"
  THEN IF base_index = 0
          \/ StartNodeIn(nexts, paths, base_index)
               # StartNodeIn(nexts, paths, base_index - 1)
       THEN StartNodeIn(nexts, paths, base_index)
       ELSE nodes[base_index - 1]
  ELSE IF /\ ~IsFirst(pairs, nodes[0])
          /\ base_index = 2
          /\ StartNodeIn(nexts, paths, base_index)
               = StartNodeIn(nexts, paths, base_index - 1)
       THEN nodes[base_index - 1]
       ELSE StartNodeIn(nexts, paths, base_index)

\* CheckEnds: the enumeration is over when every base node is back where the
\* last synchronization left it.
CheckEnds(nodes) == \E i \in DOMAIN nodes : nodes[i] # end_nodes_[i]

\* IncrementPosition, first loop: the innermost base node that is not at a
\* path end moves to its next; the base nodes after it, which are at a path
\* end, are restarted.
RECURSIVE AdvanceBases(_, _, _, _)
AdvanceBases(i, nodes, paths, last_restarted) ==
  IF i < 0 THEN [nodes |-> nodes, last_restarted |-> last_restarted]
  ELSE IF nodes[i] < Size
       THEN [nodes |-> [nodes EXCEPT ![i] = OldNext(nodes[i])],
             last_restarted |-> last_restarted]
       ELSE AdvanceBases(i - 1,
                         [nodes EXCEPT ![i] = StartNodeIn(op_nexts_, paths, i)],
                         paths, i)

\* IncrementPosition, second loop: the restarted base nodes take their restart
\* position, in ascending order.
RECURSIVE RepositionBases(_, _, _, _, _)
RepositionBases(op, pairs, i, nodes, paths) ==
  IF i >= BaseNodeCount(op) THEN nodes
  ELSE RepositionBases(op, pairs, i + 1,
         [nodes EXCEPT ![i] =
            GetBaseNodeRestartPosition(op, pairs, op_nexts_, i, nodes, paths)],
         paths)

\* IncrementPosition, third loop: when every base node was restarted, the
\* base nodes move to the next path, the ones bound to the path of their
\* predecessor together with it.
RECURSIVE NextPaths(_, _, _, _)
NextPaths(op, i, nodes, paths) ==
  IF i < 0 THEN [nodes |-> nodes, paths |-> paths]
  ELSE IF paths[i] + 1 < Len(PathStartsOf(op_nexts_))
       THEN LET moved == [nodes |-> [nodes EXCEPT ![i] =
                                       PathStartsOf(op_nexts_)[paths[i] + 2]],
                          paths |-> [paths EXCEPT ![i] = @ + 1]]
            IN IF i = 0 \/ ~OnSamePathAsPreviousBase(op, i) THEN moved
               ELSE NextPaths(op, i - 1, moved.nodes, moved.paths)
       ELSE NextPaths(op, i - 1,
                      [nodes EXCEPT ![i] = PathStartsOf(op_nexts_)[1]],
                      [paths EXCEPT ![i] = 0])

IncrementPosition(op, pairs) ==
  IF just_started_
  THEN [ok |-> TRUE, nodes |-> base_nodes_, paths |-> base_paths_]
  ELSE LET a == AdvanceBases(BaseNodeCount(op) - 1, base_nodes_, base_paths_,
                             BaseNodeCount(op))
           b == RepositionBases(op, pairs, a.last_restarted, a.nodes, base_paths_)
       IN IF a.last_restarted > 0
          THEN [ok |-> CheckEnds(b), nodes |-> b, paths |-> base_paths_]
          ELSE LET c == NextPaths(op, BaseNodeCount(op) - 1, b, base_paths_)
               IN [ok |-> CheckEnds(c.nodes), nodes |-> c.nodes, paths |-> c.paths]

\* InitializeBaseNodes: on the first start every base node is the start of
\* the first path; later the base nodes stay where they are, unless the
\* operator restarts at path starts or the node has become inactive.  Base
\* nodes that must share the path of their predecessor and no longer do are
\* moved onto it.
RECURSIVE RepairBases(_, _, _, _)
RepairBases(op, nexts, i, nodes) ==
  IF i >= BaseNodeCount(op) THEN nodes
  ELSE RepairBases(op, nexts, i + 1,
         IF OnSamePathAsPreviousBase(op, i)
            /\ ~OnSamePath(nexts, nodes[i - 1], nodes[i])
         THEN [nodes EXCEPT ![i] = nodes[i - 1]] ELSE nodes)

InitializeBaseNodes(op, nexts) ==
  LET first_start == base_nodes_ = <<>>
      paths == IF first_start THEN Vec(BaseNodeCount(op), 0) ELSE base_paths_
      kept == IF first_start THEN Vec(BaseNodeCount(op), PathStartsOf(nexts)[1])
              ELSE base_nodes_
      placed == [i \in 0..(BaseNodeCount(op) - 1) |->
                   IF RestartAtPathStartOnSynchronize(op)
                      \/ IsInactiveIn(nexts, kept[i])
                   THEN PathStartsOf(nexts)[paths[i] + 1] ELSE kept[i]]
  IN [nodes |-> RepairBases(op, nexts, 1, placed), paths |-> paths]

\* MakeActive(node, destination): inserts node after destination.
MakeActive(values, node, destination) ==
  IF ~IsPathEnd(destination)
  THEN [ok |-> TRUE,
        values |-> [values EXCEPT ![node] = values[destination],
                                  ![destination] = node]]
  ELSE [ok |-> FALSE, values |-> values]

\* MakePairActiveOperator::MakeNeighbor with the two insertions exchanged.
MakePairActiveFirstThenSecond(pair, nodes, values) ==
  LET first == MakeActive(values, pair[1], nodes[0])
  IN IF first.ok THEN MakeActive(first.values, pair[2], nodes[1]) ELSE first

\* MakePairActiveOperator::MakeNeighbor: the second node goes after base node
\* 1, then the first node after base node 0.
MakePairActiveNeighbor(pair, nodes, values) ==
  LET second == MakeActive(values, pair[2], nodes[1])
  IN IF second.ok THEN MakeActive(second.values, pair[1], nodes[0]) ELSE second

\* MakePairActiveOperator::OnNodeInitialization: the first pair with both
\* nodes inactive.
FirstInactivePair(pairs, nexts) ==
  LET inactive == {i \in 0..(Len(pairs) - 1) :
                     /\ IsInactiveIn(nexts, pairs[i + 1][1])
                     /\ IsInactiveIn(nexts, pairs[i + 1][2])}
  IN IF inactive = {} THEN Len(pairs)
     ELSE CHOOSE i \in inactive : \A j \in inactive : i <= j

\* Start(assignment): the operator is synchronized with new next values.
StartOperator(op, pairs, nexts) ==
  LET bases == InitializeBaseNodes(op, nexts) IN
  /\ op_nexts_' = nexts
  /\ base_nodes_' = bases.nodes
  /\ base_paths_' = bases.paths
  /\ end_nodes_' = bases.nodes
  /\ just_started_' = TRUE
  /\ inactive_pair_' = IF op = "MakePairActive" THEN FirstInactivePair(pairs, nexts)
                       ELSE inactive_pair_
  /\ call' = [op |-> "Start", operator |-> op]

\* MakePairActiveOperator::MakeNextNeighbor, one turn of its loop: a pair that
\* is no longer inactive, or whose positions are exhausted, is left for the
\* next one; otherwise the next position is tried.
MakePairActiveMakeNextNeighbor(pairs) ==
  IF inactive_pair_ >= Len(pairs)
  THEN /\ call' = [op |-> "MakePairActive", found |-> FALSE, done |-> TRUE]
       /\ UNCHANGED opVars
  ELSE LET pair == pairs[inactive_pair_ + 1]
           pos == IncrementPosition("MakePairActive", pairs)
           made == MakePairActiveNeighbor(pair, pos.nodes, op_nexts_)
       IN IF ~IsInactive(pair[1]) \/ ~IsInactive(pair[2]) \/ ~pos.ok
          THEN /\ just_started_' = TRUE
               /\ inactive_pair_' = inactive_pair_ + 1
               /\ base_nodes_' = IF IsInactive(pair[1]) /\ IsInactive(pair[2])
                                 THEN pos.nodes ELSE base_nodes_
               /\ base_paths_' = IF IsInactive(pair[1]) /\ IsInactive(pair[2])
                                 THEN pos.paths ELSE base_paths_
               /\ call' = [op |-> "MakePairActive", found |-> FALSE, done |-> FALSE]
               /\ UNCHANGED <<op_nexts_, end_nodes_>>
          ELSE /\ just_started_' = FALSE
               /\ base_nodes_' = pos.nodes
               /\ base_paths_' = pos.paths
               /\ call' = [op |-> "MakePairActive", found |-> made.ok, done |-> FALSE,
                           pair |-> pair, base_nodes |-> pos.nodes,
                           values |-> made.values]
               /\ UNCHANGED <<op_nexts_, end_nodes_, inactive_pair_>>

\* ---- MakePairActive on a model of 5 nodes and 2 vehicles, depot 0: the
\* indices 1 and 2 are visited or not, the indices 3 and 4 are an inactive
\* pair; 0 and 5 are the starts, 6 and 7 the ends.
PairActiveConfig ==
  [nodes |-> 5, vehicles |-> 2, start_end |-> << <<0, 0>>, <<0, 0>> >>]

\* The routes of a synchronized assignment, as indices per vehicle.
OperatorRoutes(visited) ==
  {c \in [1..2 -> UNION {[1..n -> visited] : n \in 0..Cardinality(visited)}] :
     /\ \A v \in 1..2 : \A i, j \in 1..Len(c[v]) : i # j => c[v][i] # c[v][j]
     /\ \A i \in 1..Len(c[1]), j \in 1..Len(c[2]) : c[1][i] # c[2][j]}

\* The next values of the assignment with these routes: every route runs from
\* the vehicle's start to its end, every other node is its own next.
OperatorValues(routes) ==
  [i \in 0..(Size - 1) |->
     IF \E v \in 1..vehicles_ : Start(v - 1) = i
     THEN LET v == CHOOSE v \in 1..vehicles_ : Start(v - 1) = i
          IN IF routes[v] = <<>> THEN End(v - 1) ELSE routes[v][1]
     ELSE IF \E v \in 1..vehicles_ : \E k \in 1..Len(routes[v]) : routes[v][k] = i
     THEN LET v == CHOOSE v \in 1..vehicles_ :
                     \E k \in 1..Len(routes[v]) : routes[v][k] = i
              k == CHOOSE k \in 1..Len(routes[v]) : routes[v][k] = i
          IN IF k = Len(routes[v]) THEN End(v - 1) ELSE routes[v][k + 1]
     ELSE i]

InitPairActiveSpec ==
  /\ InitIndex(PairActiveConfig)
  /\ InitCost
  /\ InitLife
  /\ time_limit_ms_ = 0
  /\ InitDom
  /\ InitFilter
  /\ InitFzSolver
  /\ InitPresolver
  /\ InitNexts
  /\ InitRouteConstructor
  /\ InitCumulFilter
  /\ InitDisjunctionFilter
  /\ InitLimits
  /\ InitOperator
  /\ assignment_ = <<>>
  /\ args \in [pairs : {<< <<3, 4>> >>},
               routes : OperatorRoutes({1, 2}),
               later_routes : OperatorRoutes({1, 2})]
  /\ call = NoCall

OperatorFrame ==
  UNCHANGED <<indexVars, nextsVars, routeConstructorVars, cumulFilterVars, disjunctionFilterVars, limitVars, costVars, lifeVars, domVars, assignment_, filterVars, fzVars, preVars,
              args>>

\* The operator is started on the first assignment, and may later be
\* synchronized with the second one (another operator's move was accepted).
DoStartMakePairActive ==
  /\ OperatorFrame
  /\ \E routes \in IF op_nexts_ = <<>> THEN {args.routes} ELSE {args.later_routes} :
       StartOperator("MakePairActive", args.pairs, OperatorValues(routes))
DoMakePairActiveNeighbor ==
  /\ OperatorFrame
  /\ op_nexts_ # <<>>
  /\ MakePairActiveMakeNextNeighbor(args.pairs)

NextPairActive ==
  \/ DoStartMakePairActive
  \/ DoMakePairActiveNeighbor

SpecPairActive == InitPairActiveSpec /\ [][NextPairActive]_vars

\* The path of values that holds both nodes, if there is one.
PathsOf(values) ==
  {ChainFrom(values, PathStartsOf(op_nexts_)[s], Size + 1) :
     s \in 1..Len(PathStartsOf(op_nexts_))}
Before(values, a, b) ==
  \E path \in PathsOf(values) :
    \E i, j \in 1..Len(path) : path[i] = a /\ path[j] = b /\ i < j

\* C12: every neighbour MakePairActive produces has the two nodes of the
\* pair on one path, the first node before the second.
C12_PairInsertedInOrder ==
  (call.op = "MakePairActive" /\ call.found)
    => Before(call.values, call.pair[1], call.pair[2])

\* What the operator does keep: the two nodes are on one path, and the first
\* node is before the second whenever base node 1 is not before base node 0
\* on the synchronized path.
C12_OrderedWhenBasesOrdered ==
  (call.op = "MakePairActive" /\ call.found)
    => /\ \/ Before(call.values, call.pair[1], call.pair[2])
          \/ Before(call.values, call.pair[2], call.pair[1])
       /\ (call.base_nodes[0] = call.base_nodes[1]
           \/ Before(op_nexts_, call.base_nodes[0], call.base_nodes[1]))
            => Before(call.values, call.pair[1], call.pair[2])

\* ---- PairRelocate

\* PairRelocateOperator::OnNodeInitialization: prevs_[Next(i)] = i for every
\* i, in index order; an entry no node points to keeps -1.
Prevs(node) ==
  LET before == {i \in 0..(Size - 1) : OldNext(i) = node}
  IN IF before = {} THEN -1 ELSE CHOOSE i \in before : \A j \in before : j <= i

\* pairs_ of PairRelocateOperator: the other node of the last pair naming the
\* node, -1 for a node of no pair.
Sibling(pairs, node) ==
  LET naming == {p \in 1..Len(pairs) : pairs[p][1] = node \/ pairs[p][2] = node}
  IN IF naming = {} THEN -1
     ELSE LET last == CHOOSE p \in naming : \A q \in naming : q <= p
              second_wins == pairs[last][2] = node
          IN IF second_wins THEN pairs[last][1] ELSE pairs[last][2]

\* CheckChainValidity: the chain after before_chain reaches chain_end without
\* meeting a path end or the excluded node.
RECURSIVE ChainReaches(_, _, _, _, _)
ChainReaches(values, current, chain_end, exclude, chain_size) ==
  IF current = chain_end THEN TRUE
  ELSE IF chain_size > Size \/ IsPathEnd(current) THEN FALSE
  ELSE IF values[current] = exclude THEN FALSE
  ELSE ChainReaches(values, values[current], chain_end, exclude, chain_size + 1)
CheckChainValidity(values, before_chain, chain_end, exclude) ==
  /\ before_chain # chain_end
  /\ before_chain # exclude
  /\ ChainReaches(values, before_chain, chain_end, exclude, 0)

\* MoveChain(before_chain, chain_end, destination): the chain after
\* before_chain up to chain_end is moved after destination.
MoveChain(values, before_chain, chain_end, destination) ==
  IF /\ CheckChainValidity(values, before_chain, chain_end, destination)
     /\ ~IsPathEnd(chain_end)
     /\ ~IsPathEnd(destination)
  THEN LET after_chain == values[chain_end]
           linked == [values EXCEPT ![chain_end] = values[destination]]
           entered == [linked EXCEPT ![destination] = linked[before_chain]]
       IN [ok |-> TRUE, values |-> [entered EXCEPT ![before_chain] = after_chain]]
  ELSE [ok |-> FALSE, values |-> values]

PairRelocateNeighbor(pairs, nodes, values) ==
  LET prev == Prevs(nodes[0])
      sibling == Sibling(pairs, nodes[0])
      prev_sibling == Prevs(sibling)
      moved == MoveChain(values, prev_sibling, sibling, nodes[1])
  IN IF prev < 0 \/ sibling < 0 THEN [ok |-> FALSE, values |-> values]
     ELSE IF prev_sibling < 0 \/ ~moved.ok THEN [ok |-> FALSE, values |-> values]
     ELSE MoveChain(moved.values, prev, nodes[0], nodes[2])

\* PathOperator::MakeNextNeighbor, one turn of its loop: the next position,
\* then MakeNeighbor on it.
PairRelocateMakeNextNeighbor(pairs) ==
  LET pos == IncrementPosition("PairRelocate", pairs)
      made == PairRelocateNeighbor(pairs, pos.nodes, op_nexts_)
  IN /\ just_started_' = FALSE
     /\ base_nodes_' = pos.nodes
     /\ base_paths_' = pos.paths
     /\ call' = IF pos.ok
                THEN [op |-> "PairRelocate", found |-> made.ok, done |-> FALSE,
                      base_nodes |-> pos.nodes, values |-> made.values]
                ELSE [op |-> "PairRelocate", found |-> FALSE, done |-> TRUE]
     /\ UNCHANGED <<op_nexts_, end_nodes_, inactive_pair_>>

\* A model of 4 nodes and 2 vehicles, depot 0: the indices 2 and 3 are a pair,
\* 1 is another visit; 0 and 4 are the starts, 5 and 6 the ends.
PairRelocateConfig ==
  [nodes |-> 4, vehicles |-> 2, start_end |-> << <<0, 0>>, <<0, 0>> >>]

InitPairRelocateSpec ==
  /\ InitIndex(PairRelocateConfig)
  /\ InitCost
  /\ InitLife
  /\ time_limit_ms_ = 0
  /\ InitDom
  /\ InitFilter
  /\ InitFzSolver
  /\ InitPresolver
  /\ InitNexts
  /\ InitRouteConstructor
  /\ InitCumulFilter
  /\ InitDisjunctionFilter
  /\ InitLimits
  /\ InitOperator
  /\ assignment_ = <<>>
  /\ args \in [pairs : {<< <<2, 3>> >>}, routes : OperatorRoutes({1, 2, 3})]
  /\ call = NoCall

DoStartPairRelocate ==
  /\ OperatorFrame
  /\ StartOperator("PairRelocate", args.pairs, OperatorValues(args.routes))
DoPairRelocateNeighbor ==
  /\ OperatorFrame
  /\ op_nexts_ # <<>>
  /\ ~(call.op = "PairRelocate" /\ call.done)
  /\ PairRelocateMakeNextNeighbor(args.pairs)

NextPairRelocate ==
  \/ DoStartPairRelocate
  \/ DoPairRelocateNeighbor

SpecPairRelocate == InitPairRelocateSpec /\ [][NextPairRelocate]_vars

\* C13 as stated: every neighbour PairRelocate produces has the pair of base
\* node 0 on one path, the pickup before the delivery.
C13_PairRelocatedInOrder ==
  (call.op = "PairRelocate" /\ call.found)
    => \A p \in 1..Len(args.pairs) :
         call.base_nodes[0] \in {args.pairs[p][1], args.pairs[p][2]}
           => Before(call.values, args.pairs[p][1], args.pairs[p][2])

\* C13 as amended: every neighbour PairRelocate produces has both nodes of
\* the pair of base node 0 on one path, the path of base nodes 1 and 2; their
\* order is not fixed.
C13_PairRelocatedOnBasePath ==
  (call.op = "PairRelocate" /\ call.found)
    => \E path \in PathsOf(call.values) :
         /\ \E k \in 1..Len(path) : path[k] = call.base_nodes[0]
         /\ \E k \in 1..Len(path) : path[k] = Sibling(args.pairs, call.base_nodes[0])
         /\ \E k \in 1..Len(path) : path[k] = call.base_nodes[1]
         /\ \E k \in 1..Len(path) : path[k] = call.base_nodes[2]

\* The delivery is base node 0 and the pair, which was on the first path, has
\* been moved to the second.
C13_Witness ==
  /\ call.op = "PairRelocate" /\ call.found
  /\ call.base_nodes[0] = 3
  /\ Before(op_nexts_, 0, 2) /\ Before(op_nexts_, 0, 3)
  /\ Before(call.values, 4, 2) /\ Before(call.values, 4, 3)

\* ------------------------------------------------------------------------
\* The FlatZinc constraint dispatcher (flatzinc2/constraints.cc)
\* ------------------------------------------------------------------------

\* A flat constraint is [type, arguments, target_variable, is_trivially_true];
\* an argument is an integer variable reference [type, var], an integer
\* value [type, value] or a list of integers [type, values].  Arg(i) is
\* 0-based as in the source.
Arg(ct, i) == ct.arguments[i + 1]
IntVarRef(var) == [type |-> "INT_VAR_REF", var |-> var]
IntValue(value) == [type |-> "INT_VALUE", value |-> value]
IntList(values) == [type |-> "INT_LIST", values |-> values]
NoTarget == "nullptr"

\* Solver expressions: a variable, a constant, a variable plus a constant
\* (MakeSum) and an element of a constant array at an index expression
\* (MakeElement).
VarExpr(var) == [kind |-> "var", var |-> var]
CstExpr(value) == [kind |-> "cst", value |-> value]

\* FzSolver::GetExpression: the expression set for the variable, or the
\* variable itself.
GetExpression(extracted, arg) ==
  IF \E k \in 1..Len(extracted) : extracted[k].variable = arg.var
  THEN extracted[CHOOSE k \in 1..Len(extracted) : extracted[k].variable = arg.var].expr
  ELSE VarExpr(arg.var)

\* What a handler does: the constraints it posts (AddConstraint), the target
\* expressions it sets (SetExtracted) and whether it died on LOG(FATAL).
Posts(constraints) == [posted |-> constraints, extracted |-> <<>>, fatal |-> FALSE]
Fatal == [posted |-> <<>>, extracted |-> <<>>, fatal |-> TRUE]
Make(rel, left, right) == [rel |-> rel, left |-> left, right |-> right]
MakeFalseConstraint == [rel |-> "False"]

\* The shape shared by ExtractIntEq, Ne, Ge, Gt, Le and Lt: the relation posted
\* with a variable on the left (var_rel), the one posted on the right-hand
\* variable when the left side is a constant (swapped_rel), and the test that
\* posts a false constraint when both sides are constants.
ExtractComparison(extracted, ct, var_rel, swapped_rel, violated) ==
  IF Arg(ct, 0).type = "INT_VAR_REF"
  THEN IF Arg(ct, 1).type = "INT_VAR_REF"
       THEN Posts(<<Make(var_rel, GetExpression(extracted, Arg(ct, 0)),
                         GetExpression(extracted, Arg(ct, 1)))>>)
       ELSE Posts(<<Make(var_rel, GetExpression(extracted, Arg(ct, 0)),
                         CstExpr(Arg(ct, 1).value))>>)
  ELSE IF Arg(ct, 1).type = "INT_VAR_REF"
       THEN Posts(<<Make(swapped_rel, GetExpression(extracted, Arg(ct, 1)),
                         CstExpr(Arg(ct, 0).value))>>)
       ELSE IF violated THEN Posts(<<MakeFalseConstraint>>) ELSE Posts(<<>>)

ExtractIntEq(extracted, ct) ==
  ExtractComparison(extracted, ct, "Equality", "Equality",
                    Arg(ct, 0).type = "INT_VALUE" /\ Arg(ct, 1).type = "INT_VALUE"
                    /\ Arg(ct, 0).value # Arg(ct, 1).value)

\* ExtractIntGe with the constant-variable branch not mirrored.
ExtractIntGeNotMirrored(extracted, ct) ==
  ExtractComparison(extracted, ct, "GreaterOrEqual", "GreaterOrEqual",
                    Arg(ct, 0).type = "INT_VALUE" /\ Arg(ct, 1).type = "INT_VALUE"
                    /\ Arg(ct, 0).value < Arg(ct, 1).value)

ExtractIntGe(extracted, ct) ==
  ExtractComparison(extracted, ct, "GreaterOrEqual", "LessOrEqual",
                    Arg(ct, 0).type = "INT_VALUE" /\ Arg(ct, 1).type = "INT_VALUE"
                    /\ Arg(ct, 0).value < Arg(ct, 1).value)

ExtractIntGt(extracted, ct) ==
  ExtractComparison(extracted, ct, "Greater", "Less",
                    Arg(ct, 0).type = "INT_VALUE" /\ Arg(ct, 1).type = "INT_VALUE"
                    /\ Arg(ct, 0).value <= Arg(ct, 1).value)

ExtractIntLe(extracted, ct) ==
  ExtractComparison(extracted, ct, "LessOrEqual", "GreaterOrEqual",
                    Arg(ct, 0).type = "INT_VALUE" /\ Arg(ct, 1).type = "INT_VALUE"
                    /\ Arg(ct, 0).value > Arg(ct, 1).value)

ExtractIntLt(extracted, ct) ==
  ExtractComparison(extracted, ct, "Less", "Greater",
                    Arg(ct, 0).type = "INT_VALUE" /\ Arg(ct, 1).type = "INT_VALUE"
                    /\ Arg(ct, 0).value >= Arg(ct, 1).value)

ExtractIntNe(extracted, ct) ==
  ExtractComparison(extracted, ct, "NonEquality", "NonEquality",
                    Arg(ct, 0).type = "INT_VALUE" /\ Arg(ct, 1).type = "INT_VALUE"
                    /\ Arg(ct, 0).value = Arg(ct, 1).value)

\* ExtractArrayIntElement.  domain[var] gives Min() and Max() of the index
\* variable; garbage is what the read of values one past its end returns when
\* imax is values.size() + 1.  A negative size kills the construction of
\* coefficients.
\* ExtractArrayIntElement's copy loop without the shift to 0-based positions.
ElementCoefficientsNotShifted(values, imin, size, garbage) ==
  [i \in 1..size |-> IF i + imin <= Len(values) THEN values[i + imin]
                     ELSE garbage]

ElementCoefficients(values, imin, size, garbage) ==
  [i \in 1..size |-> IF i - 1 + imin <= Len(values) THEN values[i - 1 + imin]
                     ELSE garbage]

ExtractArrayIntElement(extracted, ct, domain, garbage) ==
  LET index == GetExpression(extracted, Arg(ct, 0))
      values == Arg(ct, 1).values
      imin == IF domain[Arg(ct, 0).var].min > 1 THEN domain[Arg(ct, 0).var].min ELSE 1
      imax == IF domain[Arg(ct, 0).var].max < Len(values) + 1
              THEN domain[Arg(ct, 0).var].max ELSE Len(values) + 1
      shifted_index == [kind |-> "sum", of |-> index, offset |-> -imin]
      size == imax - imin + 1
      element == [kind |-> "element",
                  coefficients |-> ElementCoefficients(values, imin, size, garbage),
                  index |-> shifted_index]
  IN IF size < 0 THEN Fatal
     ELSE IF ct.target_variable # NoTarget
     THEN [posted |-> <<>>,
           extracted |-> <<[variable |-> ct.target_variable, expr |-> element]>>,
           fatal |-> FALSE]
     ELSE Posts(<<Make("Equality", element, GetExpression(extracted, Arg(ct, 2)))>>)

\* The tags whose handler is LOG(FATAL) "Not implemented" (bool2int: "should
\* have been presolved out").
NotImplementedTags ==
  {"array_bool_and", "array_bool_or", "array_bool_xor",
   "array_var_bool_element", "array_var_int_element",
   "array_var_int_position", "bool2int", "bool_and", "bool_clause",
   "bool_eq_reif", "bool_ge_reif", "bool_gt_reif", "bool_le_reif",
   "bool_left_imp", "bool_lin_le", "bool_lt_reif", "bool_ne_reif",
   "bool_not", "bool_or", "bool_right_imp", "bool_xor", "circuit",
   "count_eq", "count_geq", "count_gt", "count_leq", "count_lt",
   "count_neq", "count_reif", "diffn", "fixed_cumulative",
   "global_cardinality", "global_cardinality_closed",
   "global_cardinality_low_up", "global_cardinality_low_up_closed",
   "global_cardinality_old", "int_abs", "int_div", "int_eq_reif",
   "int_ge_reif", "int_gt_reif", "int_in", "int_le_reif",
   "int_lin_eq_reif", "int_lin_ge", "int_lin_ge_reif", "int_lin_le",
   "int_lin_le_reif", "int_lin_ne", "int_lin_ne_reif", "int_lt_reif",
   "int_max", "int_min", "int_minus", "int_mod", "int_ne_reif",
   "int_negate", "int_plus", "int_times", "inverse", "lex_less_bool",
   "lex_less_int", "lex_lesseq_bool", "lex_lesseq_int", "maximum_int",
   "minimum_int", "nvalue", "regular", "set_in", "set_in_reif",
   "sliding_sum", "sort", "table_bool", "table_int", "var_cumulative",
   "variable_cumulative"}

\* FzSolver::ExtractConstraint: the cascade on the constraint's type.  A type
\* the cascade does not name falls through it.
ExtractConstraint(extracted, ct, domain, garbage) ==
  CASE ct.type = "all_different_int" ->
         Posts(<<Make("AllDifferent", Arg(ct, 0).vars, <<>>)>>)
    [] ct.type = "alldifferent_except_0" ->
         Posts(<<Make("AllDifferentExcept", Arg(ct, 0).vars, 0)>>)
    [] ct.type \in {"array_bool_element", "array_int_element"} ->
         ExtractArrayIntElement(extracted, ct, domain, garbage)
    [] ct.type \in {"bool_eq", "int_eq"} -> ExtractIntEq(extracted, ct)
    [] ct.type \in {"bool_ge", "int_ge"} -> ExtractIntGe(extracted, ct)
    [] ct.type \in {"bool_gt", "int_gt"} -> ExtractIntGt(extracted, ct)
    [] ct.type \in {"bool_le", "int_le"} -> ExtractIntLe(extracted, ct)
    [] ct.type \in {"bool_lt", "int_lt"} -> ExtractIntLt(extracted, ct)
    [] ct.type \in {"bool_ne", "int_ne"} -> ExtractIntNe(extracted, ct)
    [] ct.type \in {"bool_lin_eq", "int_lin_eq"} ->
         Posts(<<Make("ScalProdEquality",
                      [vars |-> Arg(ct, 1).vars, coefficients |-> Arg(ct, 0).values],
                      Arg(ct, 2).value)>>)
    [] ct.type = "true_constraint" -> Posts(<<>>)
    [] ct.type \in NotImplementedTags -> Fatal
    [] OTHER -> Posts(<<>>)

\* FzSolver::Extract hands a constraint to ExtractConstraint unless presolve
\* marked it trivially true.
IsDispatchedAlways(ct) == TRUE

IsDispatched(ct) == ~ct.is_trivially_true

\* ---- The dispatcher on one constraint over the variables x and y, with
\* constants, domain bounds and element values in 0..MaxValue and value
\* lists of at most MaxValues entries.
MaxValue == 2
MaxValues == 2
FzVars == {"x", "y"}
FzSides == {IntVarRef(v) : v \in FzVars} \cup {IntValue(c) : c \in 0..MaxValue}
ComparisonTags == {"int_eq", "int_ne", "int_lt", "int_le", "int_gt", "int_ge"}
FzComparisons ==
  {[type |-> tag, arguments |-> <<left, right>>, target_variable |-> NoTarget,
    is_trivially_true |-> flag] :
     tag \in ComparisonTags \cup {"bool_le"}, left \in FzSides, right \in FzSides,
     flag \in BOOLEAN}
FzElements ==
  {[type |-> "array_int_element",
    arguments |-> <<IntVarRef("x"), IntList(values), IntVarRef("y")>>,
    target_variable |-> target, is_trivially_true |-> flag] :
     values \in UNION {[1..n -> 0..MaxValue] : n \in 1..MaxValues},
     target \in {NoTarget, "y"}, flag \in BOOLEAN}
FzOthers ==
  {[type |-> tag, arguments |-> <<[type |-> "INT_VAR_REF_ARRAY", vars |-> <<"x", "y">>]>>,
    target_variable |-> NoTarget, is_trivially_true |-> flag] :
     tag \in {"all_different_int", "alldifferent_except_0", "true_constraint",
              "int_times", "bool2int", "set_in", "int_lin_le", "my_global", ""},
     flag \in BOOLEAN}
    \cup {[type |-> "int_lin_eq",
           arguments |-> <<IntList(<<1, 1>>),
                           [type |-> "INT_VAR_REF_ARRAY", vars |-> <<"x", "y">>],
                           IntValue(c)>>,
           target_variable |-> NoTarget, is_trivially_true |-> FALSE] :
            c \in 0..MaxValue}
FzDomains ==
  {[v \in FzVars |-> IF v = "x" THEN [min |-> lo, max |-> hi]
                     ELSE [min |-> 0, max |-> MaxValue]] :
     lo \in 0..(MaxValues + 2), hi \in 0..(MaxValues + 2)} 

InitFlatzincSpec ==
  /\ InitIndex(PairRelocateConfig)
  /\ InitCost
  /\ InitLife
  /\ time_limit_ms_ = 0
  /\ InitDom
  /\ InitFilter
  /\ InitOperator
  /\ InitFzSolver
  /\ InitPresolver
  /\ InitNexts
  /\ InitRouteConstructor
  /\ InitCumulFilter
  /\ InitDisjunctionFilter
  /\ InitLimits
  /\ assignment_ = <<>>
  /\ \/ args \in [ct : FzComparisons \cup FzOthers,
                  domain : {d \in FzDomains : d["x"] = [min |-> 0, max |-> MaxValue]}]
     \/ args \in [ct : FzElements, domain : {d \in FzDomains : d["x"].min <= d["x"].max}]
  /\ call = NoCall

FlatzincFrame ==
  UNCHANGED <<indexVars, nextsVars, routeConstructorVars, cumulFilterVars, disjunctionFilterVars, limitVars, costVars, lifeVars, domVars, assignment_, filterVars, opVars,
              preVars, args>>

\* FzSolver::Extract on the model's constraint: dispatched, or passed over.
DoExtractConstraint ==
  /\ FlatzincFrame
  /\ call = NoCall
  /\ IsDispatched(args.ct)
  /\ \E garbage \in 0..MaxValue, hardened \in BOOLEAN :
       LET reads_past_end ==
             /\ args.ct.type = "array_int_element"
             /\ args.domain["x"].max > Len(Arg(args.ct, 1).values)
           done == IF reads_past_end /\ hardened THEN Fatal
                   ELSE ExtractConstraint(fz_extracted_, args.ct, args.domain, garbage)
       IN /\ fz_posted_' = fz_posted_ \o done.posted
          /\ fz_extracted_' = fz_extracted_ \o done.extracted
          /\ fz_status_' = IF done.fatal THEN "fatal" ELSE "ok"
          /\ call' = [op |-> "ExtractConstraint", posted |-> done.posted,
                      extracted |-> done.extracted, fatal |-> done.fatal]
DoSkipConstraint ==
  /\ FlatzincFrame
  /\ call = NoCall
  /\ ~IsDispatched(args.ct)
  /\ call' = [op |-> "Extract", skipped |-> TRUE]
  /\ UNCHANGED fzVars

NextFlatzinc ==
  \/ DoExtractConstraint
  \/ DoSkipConstraint

SpecFlatzinc == InitFlatzincSpec /\ [][NextFlatzinc]_vars

\* ---- What the posted constraints and the target expressions mean.
\* The tags whose handler has a body.
ImplementedTags ==
  {"all_different_int", "alldifferent_except_0", "array_bool_element",
   "array_int_element", "bool_eq", "int_eq", "bool_ge", "int_ge", "bool_gt",
   "int_gt", "bool_le", "int_le", "bool_lt", "int_lt", "bool_ne", "int_ne",
   "bool_lin_eq", "int_lin_eq", "true_constraint"}

FzEnvs == [FzVars -> 0..(MaxValues + 2)]

RECURSIVE Eval(_, _)
Eval(expr, env) ==
  CASE expr.kind = "var" -> env[expr.var]
    [] expr.kind = "cst" -> expr.value
    [] expr.kind = "sum" -> Eval(expr.of, env) + expr.offset
    [] expr.kind = "element" -> expr.coefficients[Eval(expr.index, env) + 1]

\* An element expression has a value only for an index inside its
\* coefficients (Solver::MakeElement).
RECURSIVE Defined(_, _)
Defined(expr, env) ==
  CASE expr.kind = "sum" -> Defined(expr.of, env)
    [] expr.kind = "element" ->
         /\ Defined(expr.index, env)
         /\ Eval(expr.index, env) \in 0..(Len(expr.coefficients) - 1)
    [] OTHER -> TRUE

\* Solver::MakeEquality, MakeNonEquality, MakeGreaterOrEqual, MakeGreater,
\* MakeLessOrEqual, MakeLess, MakeElementEquality and MakeFalseConstraint.
Holds(constraint, env) ==
  CASE constraint.rel = "False" -> FALSE
    [] constraint.rel = "Equality" ->
         /\ Defined(constraint.left, env)
         /\ Defined(constraint.right, env)
         /\ Eval(constraint.left, env) = Eval(constraint.right, env)
    [] constraint.rel = "NonEquality" ->
         Eval(constraint.left, env) # Eval(constraint.right, env)
    [] constraint.rel = "GreaterOrEqual" ->
         Eval(constraint.left, env) >= Eval(constraint.right, env)
    [] constraint.rel = "Greater" ->
         Eval(constraint.left, env) > Eval(constraint.right, env)
    [] constraint.rel = "LessOrEqual" ->
         Eval(constraint.left, env) <= Eval(constraint.right, env)
    [] constraint.rel = "Less" ->
         Eval(constraint.left, env) < Eval(constraint.right, env)

AllHold(posted, env) == \A k \in 1..Len(posted) : Holds(posted[k], env)

\* The value of one side of a flat constraint, and the relation its tag names.
SideValue(arg, env) == IF arg.type = "INT_VAR_REF" THEN env[arg.var] ELSE arg.value
Related(tag, left, right) ==
  CASE tag = "int_eq" -> left = right
    [] tag = "int_ne" -> left # right
    [] tag = "int_lt" -> left < right
    [] tag = "int_le" -> left <= right
    [] tag = "int_gt" -> left > right
    [] tag = "int_ge" -> left >= right

Dispatched == call.op = "ExtractConstraint"

\* C14: dispatching a constraint whose tag has no implemented handler, a tag
\* the cascade does not name included, dies on the fatal error; it never
\* returns without one.
C14_UnsupportedFailsFast ==
  (Dispatched /\ args.ct.type \notin ImplementedTags) => call.fatal

C16_ComparisonIsTheRelation ==
  (Dispatched /\ args.ct.type \in ComparisonTags) =>
    /\ ~call.fatal
    /\ call.extracted = <<>>
    /\ \A env \in FzEnvs :
         AllHold(call.posted, env)
           <=> Related(args.ct.type, SideValue(Arg(args.ct, 0), env),
                       SideValue(Arg(args.ct, 1), env))
    /\ (Arg(args.ct, 0).type = "INT_VALUE" /\ Arg(args.ct, 1).type = "INT_VALUE") =>
         call.posted = IF Related(args.ct.type, Arg(args.ct, 0).value,
                                  Arg(args.ct, 1).value)
                       THEN <<>> ELSE <<MakeFalseConstraint>>
C16_Witness ==
  /\ Dispatched
  /\ args.ct.type = "int_ge"
  /\ Arg(args.ct, 0).type = "INT_VALUE"
  /\ Arg(args.ct, 1).type = "INT_VAR_REF"
  /\ Len(call.posted) = 1

\* C17: for array_int_element(index, values, target) the posted element
\* constraint, or the expression set for the target, holds exactly when
\* target = values[index] (1-based), for every index value of the index's
\* domain within 1..|values|.
ElementRelation(env) ==
  /\ AllHold(call.posted, env)
  /\ \A k \in 1..Len(call.extracted) :
       /\ Defined(call.extracted[k].expr, env)
       /\ env[call.extracted[k].variable] = Eval(call.extracted[k].expr, env)
C17_ElementIsOneBased ==
  (Dispatched /\ args.ct.type = "array_int_element" /\ ~call.fatal) =>
    /\ Len(call.posted) + Len(call.extracted) = 1
    /\ \A env \in FzEnvs :
         (/\ env["x"] \in args.domain["x"].min..args.domain["x"].max
          /\ env["x"] \in 1..Len(Arg(args.ct, 1).values)) =>
           (ElementRelation(env) <=> env["y"] = Arg(args.ct, 1).values[env["x"]])
C17_Witness ==
  /\ Dispatched
  /\ args.ct.type = "array_int_element"
  /\ ~call.fatal
  /\ Arg(args.ct, 1).values = <<1, 2>>
  /\ args.domain["x"] = [min |-> 2, max |-> 2]
  /\ Len(call.posted) = 1

\* ---- FzPresolver::Run.  presolve.cc is outside the sources at hand; the
\* rules and the loop follow the presolver's rule table (Bool2Int, IntEq,
\* IntNe, Inequality, ArrayIntElement) and FzPresolver's declaration.
MaxConstraints == 2
MaxConst == 1
PresolveVars == {"b", "x", "y"}
PresolveValues == 0..(MaxConst + 1)
InequalityTags == {"int_lt", "int_le", "int_gt", "int_ge"}

FlatConstraint(type, arguments) ==
  [type |-> type, arguments |-> arguments, is_trivially_true |-> FALSE]

\* FindRepresentativeOfVar: the root of the variable's class.
RECURSIVE FindRepresentativeOfVar(_, _)
FindRepresentativeOfVar(map, var) ==
  IF var \in DOMAIN map /\ map[var] # var
  THEN FindRepresentativeOfVar(map, map[var])
  ELSE var

\* MarkVariablesAsEquivalent(from, to).
MarkVariablesAsEquivalent(map, from, to) ==
  LET from_root == FindRepresentativeOfVar(map, from)
      to_root == FindRepresentativeOfVar(map, to)
  IN IF from_root = to_root THEN map
     ELSE [v \in (DOMAIN map) \cup {from_root} |->
             IF v = from_root THEN to_root ELSE map[v]]

\* What a rule does to its constraint and to the model: whether it fired, the
\* constraint it leaves, the domains and the equivalences.
NotFired(ct, domains, map) ==
  [changed |-> FALSE, ct |-> ct, domains |-> domains, map |-> map]
Deleted(ct, domains, map) ==
  [changed |-> TRUE, ct |-> [ct EXCEPT !.is_trivially_true = TRUE],
   domains |-> domains, map |-> map]
IsVar(arg) == arg.type = "INT_VAR_REF"
IsConst(arg) == arg.type = "INT_VALUE"

\* Bool2Int: bool2int(b, x) marks x and b equivalent and is deleted.
PresolveBool2Int(ct, domains, map) ==
  IF ct.type = "bool2int"
  THEN Deleted(ct, domains, MarkVariablesAsEquivalent(map, Arg(ct, 0).var, Arg(ct, 1).var))
  ELSE NotFired(ct, domains, map)

\* IntEq: int_eq(x, y) adds the equivalence, int_eq(x, k) assigns x; deleted.
PresolveIntEq(ct, domains, map) ==
  IF ct.type = "int_eq" /\ IsVar(Arg(ct, 0)) /\ IsVar(Arg(ct, 1))
  THEN Deleted(ct, domains, MarkVariablesAsEquivalent(map, Arg(ct, 0).var, Arg(ct, 1).var))
  ELSE IF ct.type = "int_eq" /\ IsVar(Arg(ct, 0)) /\ IsConst(Arg(ct, 1))
  THEN Deleted(ct, [domains EXCEPT ![Arg(ct, 0).var] = @ \cap {Arg(ct, 1).value}], map)
  ELSE NotFired(ct, domains, map)

\* IntNe: with one side constant the value leaves the other side's domain.
PresolveIntNe(ct, domains, map) ==
  IF ct.type = "int_ne" /\ IsVar(Arg(ct, 0)) /\ IsConst(Arg(ct, 1))
  THEN Deleted(ct, [domains EXCEPT ![Arg(ct, 0).var] = @ \ {Arg(ct, 1).value}], map)
  ELSE IF ct.type = "int_ne" /\ IsConst(Arg(ct, 0)) /\ IsVar(Arg(ct, 1))
  THEN Deleted(ct, [domains EXCEPT ![Arg(ct, 1).var] = @ \ {Arg(ct, 0).value}], map)
  ELSE NotFired(ct, domains, map)

\* Inequality: int_lt/le/gt/ge with one side constant tightens the bound of
\* the other side.
PresolveInequalities(ct, domains, map) ==
  IF ct.type \in InequalityTags /\ IsVar(Arg(ct, 0)) /\ IsConst(Arg(ct, 1))
  THEN Deleted(ct, [domains EXCEPT ![Arg(ct, 0).var] =
                      {v \in @ : Related(ct.type, v, Arg(ct, 1).value)}], map)
  ELSE IF ct.type \in InequalityTags /\ IsConst(Arg(ct, 0)) /\ IsVar(Arg(ct, 1))
  THEN Deleted(ct, [domains EXCEPT ![Arg(ct, 1).var] =
                      {v \in @ : Related(ct.type, Arg(ct, 0).value, v)}], map)
  ELSE NotFired(ct, domains, map)

\* ArrayIntElement: with a fixed index the constraint becomes the equality of
\* the target to the selected constant.
PresolveArrayIntElement(ct, domains, map) ==
  IF /\ ct.type = "array_int_element"
     /\ \E i \in 1..Len(Arg(ct, 1).values) : domains[Arg(ct, 0).var] = {i}
  THEN LET i == CHOOSE i \in 1..Len(Arg(ct, 1).values) : domains[Arg(ct, 0).var] = {i}
       IN [changed |-> TRUE,
           ct |-> FlatConstraint("int_eq", <<Arg(ct, 2), IntValue(Arg(ct, 1).values[i])>>),
           domains |-> domains, map |-> map]
  ELSE NotFired(ct, domains, map)

\* PresolveOneConstraint: the rule of the constraint's type; true iff the model
\* was modified.
PresolveOneConstraint(ct, domains, map) ==
  CASE ct.type = "bool2int" -> PresolveBool2Int(ct, domains, map)
    [] ct.type = "int_eq" -> PresolveIntEq(ct, domains, map)
    [] ct.type = "int_ne" -> PresolveIntNe(ct, domains, map)
    [] ct.type \in InequalityTags -> PresolveInequalities(ct, domains, map)
    [] ct.type = "array_int_element" -> PresolveArrayIntElement(ct, domains, map)
    [] OTHER -> NotFired(ct, domains, map)

\* SubstituteEverywhere: every variable reference of the model becomes its
\* representative.
SubstituteEverywhere(constraints, map) ==
  [k \in 1..Len(constraints) |->
     [constraints[k] EXCEPT !.arguments =
        [j \in 1..Len(@) |->
           IF IsVar(@[j]) THEN IntVarRef(FindRepresentativeOfVar(map, @[j].var))
           ELSE @[j]]]]

\* Run stops after the first pass.
RunContinuesNever(changed) == FALSE

\* Run's loop: another pass follows a pass in which a rule fired.
RunContinues(changed) == changed

PresolveConstraints ==
  {FlatConstraint("bool2int", <<IntVarRef("b"), IntVarRef("x")>>),
   FlatConstraint("int_eq", <<IntVarRef("x"), IntVarRef("y")>>),
   FlatConstraint("int_lt", <<IntVarRef("x"), IntVarRef("y")>>),
   FlatConstraint("int_times", <<IntVarRef("x"), IntVarRef("y")>>),
   [FlatConstraint("int_ne", <<IntVarRef("y"), IntValue(0)>>)
      EXCEPT !.is_trivially_true = TRUE]}
    \cup {FlatConstraint(tag, <<IntVarRef("x"), IntValue(k)>>) :
            tag \in {"int_eq", "int_ne", "int_le"}, k \in 0..MaxConst}
    \cup {FlatConstraint("int_ge", <<IntValue(k), IntVarRef("x")>>) : k \in 0..MaxConst}
    \cup {FlatConstraint("int_eq", <<IntValue(k), IntValue(MaxConst)>>) : k \in 0..MaxConst}
    \cup {FlatConstraint("array_int_element",
                         <<IntVarRef("x"), IntList(<<k, MaxConst + 1>>), IntVarRef("y")>>) :
            k \in 0..MaxConst}
PresolveModels ==
  UNION {[1..n -> PresolveConstraints] : n \in 0..MaxConstraints}

InitPresolveSpec ==
  /\ InitIndex(PairRelocateConfig)
  /\ InitCost
  /\ InitLife
  /\ time_limit_ms_ = 0
  /\ InitDom
  /\ InitFilter
  /\ InitOperator
  /\ InitFzSolver
  /\ InitNexts
  /\ InitRouteConstructor
  /\ InitCumulFilter
  /\ InitDisjunctionFilter
  /\ InitLimits
  /\ assignment_ = <<>>
  /\ args \in [constraints : PresolveModels,
               domains : {[v \in PresolveVars |->
                             IF v = "b" THEN {0, 1} ELSE PresolveValues]}]
  /\ fz_constraints_ = args.constraints
  /\ fz_domains_ = args.domains
  /\ var_representative_map_ = <<>>
  /\ run_pc_ = "idle"
  /\ run_index_ = 0
  /\ run_changed_ = FALSE
  /\ run_changed_since_start_ = FALSE
  /\ run_result_ = FALSE
  /\ call = NoCall

PresolveFrame ==
  UNCHANGED <<indexVars, nextsVars, routeConstructorVars, cumulFilterVars, disjunctionFilterVars, limitVars, costVars, lifeVars, domVars, assignment_, filterVars, opVars,
              fzVars, args>>

\* Run is entered: the first pass starts.
DoRun ==
  /\ PresolveFrame
  /\ run_pc_ = "idle"
  /\ run_pc_' = "pass"
  /\ run_index_' = 0
  /\ run_changed_' = FALSE
  /\ run_changed_since_start_' = FALSE
  /\ call' = [op |-> "Run"]
  /\ UNCHANGED <<fz_constraints_, fz_domains_, var_representative_map_, run_result_>>

\* One turn of the pass: the next constraint, unless marked trivially true,
\* goes through PresolveOneConstraint.
DoPresolveOneConstraint ==
  /\ PresolveFrame
  /\ run_pc_ = "pass"
  /\ run_index_ < Len(fz_constraints_)
  /\ LET ct == fz_constraints_[run_index_ + 1]
         done == IF ct.is_trivially_true
                 THEN NotFired(ct, fz_domains_, var_representative_map_)
                 ELSE PresolveOneConstraint(ct, fz_domains_, var_representative_map_)
     IN /\ fz_constraints_' = [fz_constraints_ EXCEPT ![run_index_ + 1] = done.ct]
        /\ fz_domains_' = done.domains
        /\ var_representative_map_' = done.map
        /\ run_changed_' = (run_changed_ \/ done.changed)
        /\ call' = [op |-> "PresolveOneConstraint", changed |-> done.changed]
  /\ run_index_' = run_index_ + 1
  /\ UNCHANGED <<run_pc_, run_changed_since_start_, run_result_>>

\* The end of a pass: the equivalences found are substituted, and Run goes on
\* to another pass or returns.
DoEndPass ==
  /\ PresolveFrame
  /\ run_pc_ = "pass"
  /\ run_index_ = Len(fz_constraints_)
  /\ fz_constraints_' = SubstituteEverywhere(fz_constraints_, var_representative_map_)
  /\ var_representative_map_' = <<>>
  /\ run_changed_since_start_' = (run_changed_since_start_ \/ run_changed_)
  /\ run_index_' = 0
  /\ run_changed_' = FALSE
  /\ IF RunContinues(run_changed_)
     THEN /\ run_pc_' = "pass"
          /\ run_result_' = run_result_
          /\ call' = [op |-> "EndPass", again |-> TRUE]
     ELSE /\ run_pc_' = "done"
          /\ run_result_' = (run_changed_since_start_ \/ run_changed_)
          /\ call' = [op |-> "EndPass", again |-> FALSE]
  /\ UNCHANGED fz_domains_

NextPresolve ==
  \/ DoRun
  \/ DoPresolveOneConstraint
  \/ DoEndPass

SpecPresolve == InitPresolveSpec /\ [][NextPresolve]_vars /\ WF_vars(NextPresolve)

\* A rule is applicable to a constraint of the model.
RuleApplicable ==
  \E k \in 1..Len(fz_constraints_) :
    /\ ~fz_constraints_[k].is_trivially_true
    /\ PresolveOneConstraint(fz_constraints_[k], fz_domains_, <<>>).changed
ModelTransformed ==
  fz_constraints_ # args.constraints \/ fz_domains_ # args.domains

MaxSymConstraints == 3
MaxCoefficient == 2
LiteralIndex(signed_value) ==
  IF signed_value > 0 THEN 2 * (signed_value - 1) ELSE 2 * (-signed_value - 1) + 1
NegatedIndex(index) == IF index % 2 = 0 THEN index + 1 ELSE index - 1

\* The terms of an expression by increasing coefficient (then literal).
RECURSIVE SortTerms(_)
SortTerms(terms) ==
  IF terms = {} THEN <<>>
  ELSE LET first == CHOOSE t \in terms :
                      \A u \in terms :
                        \/ t.coefficient < u.coefficient
                        \/ t.coefficient = u.coefficient /\ t.literal <= u.literal
       IN <<first>> \o SortTerms(terms \ {first})

\* ComputeBooleanLinearExpressionCanonicalForm: every coefficient positive, a
\* negative one moved to the negated literal; bound_shift and max_value.
CanonicalForm(literals, coefficients) ==
  LET positions == {i \in 1..Len(literals) : coefficients[i] # 0}
      Abs(c) == IF c < 0 THEN -c ELSE c
  IN [terms |-> SortTerms({[literal |-> IF coefficients[i] > 0
                                        THEN LiteralIndex(literals[i])
                                        ELSE NegatedIndex(LiteralIndex(literals[i])),
                            coefficient |-> Abs(coefficients[i])] : i \in positions}),
      bound_shift |-> SumSeq([i \in 1..Len(literals) |->
                                IF coefficients[i] < 0 THEN -coefficients[i] ELSE 0]),
      max_value |-> SumSeq([i \in 1..Len(literals) |-> Abs(coefficients[i])])]

\* CanonicalBooleanLinearProblem::AddLinearConstraint: the upper-bounded
\* canonical constraints of one constraint; a bound no assignment exceeds adds
\* nothing, and a lower bound gives a constraint on the negated literals.
AddLinearConstraint(constraint) ==
  LET form == CanonicalForm(constraint.literals, constraint.coefficients)
      upper_rhs == constraint.upper_bound + form.bound_shift
      lower_rhs == form.max_value - constraint.lower_bound - form.bound_shift
      negated == SortTerms({[literal |-> NegatedIndex(form.terms[k].literal),
                             coefficient |-> form.terms[k].coefficient] :
                              k \in 1..Len(form.terms)})
  IN (IF constraint.has_upper_bound /\ upper_rhs < form.max_value
      THEN <<[rhs |-> upper_rhs, terms |-> form.terms]>> ELSE <<>>)
     \o (IF constraint.has_lower_bound /\ lower_rhs < form.max_value
         THEN <<[rhs |-> lower_rhs, terms |-> negated]>> ELSE <<>>)

RECURSIVE CanonicalConstraints(_)
CanonicalConstraints(constraints) ==
  IF constraints = <<>> THEN <<>>
  ELSE AddLinearConstraint(Head(constraints)) \o CanonicalConstraints(Tail(constraints))

\* IdGenerator::GetId: the id of the pair (type, coefficient), a new one when
\* the pair was never seen.
GetId(id_map, type, coefficient) ==
  IF \E k \in 1..Len(id_map) : id_map[k] = <<type, coefficient>>
  THEN [id_map |-> id_map,
        id |-> (CHOOSE k \in 1..Len(id_map) : id_map[k] = <<type, coefficient>>) - 1]
  ELSE [id_map |-> Append(id_map, <<type, coefficient>>), id |-> Len(id_map)]

\* The classes of the literal nodes: that of coefficient 0, replaced by that
\* of the canonical objective coefficient for the literals of the objective.
RECURSIVE ObjectiveClasses(_, _, _)
ObjectiveClasses(graph, expr, k) ==
  IF k > Len(expr) THEN graph
  ELSE LET got == GetId(graph.id_map, "LITERAL_NODE", expr[k].coefficient)
       IN ObjectiveClasses(
            [graph EXCEPT !.id_map = got.id_map,
                          !.classes[expr[k].literal + 1] = got.id],
            expr, k + 1)

\* The loop over the terms of one canonical constraint: a literal of
\* coefficient 1 hangs on the constraint node, the others on one node per
\* coefficient, itself tied to the constraint node.
RECURSIVE AddTerms(_, _, _, _, _, _)
AddTerms(graph, constraint_node_index, current_node_index, previous_coefficient, terms, k) ==
  IF k > Len(terms) THEN graph
  ELSE IF terms[k].coefficient # previous_coefficient
  THEN LET got == GetId(graph.id_map, "CONSTRAINT_COEFFICIENT_NODE",
                        terms[k].coefficient)
           node == Len(graph.classes)
       IN AddTerms([id_map |-> got.id_map,
                    classes |-> Append(graph.classes, got.id),
                    arcs |-> graph.arcs \cup {<<constraint_node_index, node>>,
                                              <<node, constraint_node_index>>,
                                              <<node, terms[k].literal>>,
                                              <<terms[k].literal, node>>}],
                   constraint_node_index, node, terms[k].coefficient, terms, k + 1)
  ELSE AddTerms([graph EXCEPT !.arcs = @ \cup {<<current_node_index, terms[k].literal>>,
                                               <<terms[k].literal, current_node_index>>}],
                constraint_node_index, current_node_index, previous_coefficient,
                terms, k + 1)

RECURSIVE AddConstraintNodes(_, _, _)
AddConstraintNodes(graph, canonical, i) ==
  IF i > Len(canonical) THEN graph
  ELSE LET got == GetId(graph.id_map, "CONSTRAINT_NODE", canonical[i].rhs)
           node == Len(graph.classes)
       IN AddConstraintNodes(
            AddTerms([graph EXCEPT !.id_map = got.id_map,
                                   !.classes = Append(@, got.id)],
                     node, node, 1, canonical[i].terms, 1),
            canonical, i + 1)

\* The literal nodes left in the class of coefficient 0, whatever the objective.
GenerateGraphClassesNever(problem, literals) == literals

GenerateGraphClasses(problem, literals) ==
  IF problem.type \in {"MINIMIZATION", "MAXIMIZATION"}
  THEN ObjectiveClasses(literals,
                        CanonicalForm(problem.objective.literals,
                                      problem.objective.coefficients).terms, 1)
  ELSE literals

\* GenerateGraphForSymmetryDetection: the arcs of the graph and
\* initial_equivalence_classes (node n at position n + 1).
GenerateGraphForSymmetryDetection(problem) ==
  LET got == GetId(<<>>, "LITERAL_NODE", 0)
      literals == [id_map |-> got.id_map,
                   classes |-> [n \in 1..(2 * problem.num_variables) |-> got.id],
                   arcs |-> UNION {{<<2 * i, 2 * i + 1>>, <<2 * i + 1, 2 * i>>} :
                                     i \in 0..(problem.num_variables - 1)}]
  IN AddConstraintNodes(GenerateGraphClasses(problem, literals),
                        CanonicalConstraints(problem.constraints), 1)

\* ---- Automorphisms of the graph and symmetries of the problem.
NodesOf(graph) == 0..(Len(graph.classes) - 1)
ClassOf(graph, node) == graph.classes[node + 1]
TypeOf(graph, node) == graph.id_map[ClassOf(graph, node) + 1][1]
LiteralNodes(problem) == 0..(2 * problem.num_variables - 1)
ConstraintNodes(graph) == {n \in NodesOf(graph) : TypeOf(graph, n) = "CONSTRAINT_NODE"}
CoefficientNodes(graph) ==
  {n \in NodesOf(graph) : TypeOf(graph, n) = "CONSTRAINT_COEFFICIENT_NODE"}

\* A permutation of the nodes that keeps every node in its class and maps
\* arcs to arcs (GraphSymmetryFinder::FindSymmetries).
IsAutomorphism(graph, f) ==
  /\ DOMAIN f = NodesOf(graph)
  /\ \A a, b \in NodesOf(graph) : f[a] = f[b] => a = b
  /\ \A n \in NodesOf(graph) : f[n] \in NodesOf(graph) /\ ClassOf(graph, f[n]) = ClassOf(graph, n)
  /\ \A arc \in graph.arcs : <<f[arc[1]], f[arc[2]]>> \in graph.arcs

\* The node permutation made of a permutation of the literal nodes and one of
\* the constraint nodes.  A coefficient node hangs on one constraint node and
\* no two of a constraint share a class, so an automorphism sends it to the
\* node of its class on the image of its constraint node: every
\* class-preserving automorphism is of this form.
ParentOf(graph, node) ==
  CHOOSE c \in ConstraintNodes(graph) : <<c, node>> \in graph.arcs
NodePermutation(graph, on_literals, on_constraints) ==
  [n \in NodesOf(graph) |->
     IF n \in DOMAIN on_literals THEN on_literals[n]
     ELSE IF n \in DOMAIN on_constraints THEN on_constraints[n]
     ELSE LET images == {m \in CoefficientNodes(graph) :
                           /\ ClassOf(graph, m) = ClassOf(graph, n)
                           /\ ParentOf(graph, m) = on_constraints[ParentOf(graph, n)]}
          IN IF images = {} THEN n ELSE CHOOSE m \in images : TRUE]
Automorphisms(problem, graph) ==
  {f \in {NodePermutation(graph, s, c) :
            s \in Permutations(LiteralNodes(problem)),
            c \in Permutations(ConstraintNodes(graph))} : IsAutomorphism(graph, f)}
ExtendsToAutomorphism(problem, graph, on_literals) ==
  \E c \in Permutations(ConstraintNodes(graph)) :
    IsAutomorphism(graph, NodePermutation(graph, on_literals, c))

\* The canonical objective coefficient of a literal, and the image of a
\* canonical constraint under a permutation of the literals.
ObjectiveCoefficient(problem, literal) ==
  LET expr == IF problem.type \in {"MINIMIZATION", "MAXIMIZATION"}
              THEN CanonicalForm(problem.objective.literals,
                                 problem.objective.coefficients).terms
              ELSE <<>>
  IN IF \E k \in 1..Len(expr) : expr[k].literal = literal
     THEN expr[CHOOSE k \in 1..Len(expr) : expr[k].literal = literal].coefficient
     ELSE 0
TermSet(constraint) ==
  [rhs |-> constraint.rhs,
   terms |-> {constraint.terms[k] : k \in 1..Len(constraint.terms)}]
ImageOf(on_literals, constraint) ==
  [rhs |-> constraint.rhs,
   terms |-> {[literal |-> on_literals[t.literal], coefficient |-> t.coefficient] :
                t \in constraint.terms}]
RespectsLiterals(problem, on_literals) ==
  /\ \A l \in LiteralNodes(problem) :
       on_literals[NegatedIndex(l)] = NegatedIndex(on_literals[l])
  /\ \A l \in LiteralNodes(problem) :
       ObjectiveCoefficient(problem, on_literals[l]) = ObjectiveCoefficient(problem, l)

\* A symmetry of the problem: the set of canonical constraints is mapped onto
\* itself.
IsSymmetry(problem, on_literals) ==
  LET canonical == CanonicalConstraints(problem.constraints)
      constraints == {TermSet(canonical[k]) : k \in 1..Len(canonical)}
  IN /\ RespectsLiterals(problem, on_literals)
     /\ {ImageOf(on_literals, c) : c \in constraints} = constraints

\* The same with the canonical constraints counted: a constraint and its image
\* occur the same number of times.
IsCountedSymmetry(problem, on_literals) ==
  LET canonical == CanonicalConstraints(problem.constraints)
      Count(c) == Cardinality({k \in 1..Len(canonical) : TermSet(canonical[k]) = c})
  IN /\ RespectsLiterals(problem, on_literals)
     /\ \A k \in 1..Len(canonical) :
          Count(ImageOf(on_literals, TermSet(canonical[k]))) = Count(TermSet(canonical[k]))

\* Problems over two variables: up to MaxSymConstraints constraints (listed in
\* a fixed order) with coefficients up to MaxCoefficient, and an objective.
LinearConstraint(literals, coefficients, has_lower, lower, has_upper, upper) ==
  [literals |-> literals, coefficients |-> coefficients,
   has_lower_bound |-> has_lower, lower_bound |-> lower,
   has_upper_bound |-> has_upper, upper_bound |-> upper]
SymConstraints ==
  <<LinearConstraint(<<1>>, <<1>>, FALSE, 0, TRUE, 0),
    LinearConstraint(<<2>>, <<1>>, FALSE, 0, TRUE, 0),
    LinearConstraint(<<1>>, <<-1>>, FALSE, 0, TRUE, -1),
    LinearConstraint(<<1, 2>>, <<1, 1>>, TRUE, 1, FALSE, 0),
    LinearConstraint(<<2, -1>>, <<2, -1>>, FALSE, 0, TRUE, 1)>>
    \o [k \in 1..(MaxCoefficient - 1) |->
          LinearConstraint(<<1, 2>>, <<k + 1, 1>>, FALSE, 0, TRUE, k + 1)]
SymObjectives ==
  {[type |-> "SATISFIABILITY", literals |-> <<1>>, coefficients |-> <<1>>],
   [type |-> "MINIMIZATION", literals |-> <<1>>, coefficients |-> <<1>>],
   [type |-> "MAXIMIZATION", literals |-> <<1, -2>>, coefficients |-> <<-1, 1>>]}
SymProblems ==
  {[num_variables |-> 2, type |-> objective.type,
    objective |-> [literals |-> objective.literals,
                   coefficients |-> objective.coefficients],
    constraints |-> [k \in 1..Len(picked) |-> SymConstraints[picked[k]]]] :
     objective \in SymObjectives,
     picked \in {s \in UNION {[1..n -> 1..Len(SymConstraints)] : n \in 0..MaxSymConstraints} :
                   \A k \in 1..(Len(s) - 1) : s[k] <= s[k + 1]}}

InitSymmetrySpec ==
  /\ InitIndex(PairRelocateConfig)
  /\ InitCost
  /\ InitLife
  /\ time_limit_ms_ = 0
  /\ InitDom
  /\ InitFilter
  /\ InitOperator
  /\ InitFzSolver
  /\ InitPresolver
  /\ InitNexts
  /\ InitRouteConstructor
  /\ InitCumulFilter
  /\ InitDisjunctionFilter
  /\ InitLimits
  /\ assignment_ = <<>>
  /\ args \in [problem : SymProblems]
  /\ call = NoCall

SymmetryFrame ==
  UNCHANGED <<indexVars, nextsVars, routeConstructorVars, cumulFilterVars, disjunctionFilterVars, limitVars, costVars, lifeVars, domVars, assignment_, filterVars, opVars,
              fzVars, preVars, args>>

DoGenerateGraph ==
  /\ SymmetryFrame
  /\ call = NoCall
  /\ call' = [op |-> "GenerateGraphForSymmetryDetection",
              graph |-> GenerateGraphForSymmetryDetection(args.problem)]

\* FindLinearBooleanProblemSymmetries: a generator found on the graph, kept as
\* its part on the literal nodes unless that part moves nothing.
DoFindSymmetries ==
  /\ SymmetryFrame
  /\ call.op = "GenerateGraphForSymmetryDetection"
  /\ \E f \in Automorphisms(args.problem, call.graph) :
       LET support == {l \in LiteralNodes(args.problem) : f[l] # l}
       IN call' = [op |-> "FindLinearBooleanProblemSymmetries",
                   graph |-> call.graph,
                   kept |-> support # {},
                   generator |-> [l \in support |-> f[l]]]

NextSymmetry ==
  \/ DoGenerateGraph
  \/ DoFindSymmetries

SpecSymmetry == InitSymmetrySpec /\ [][NextSymmetry]_vars

\* C19: the class-preserving automorphisms of the graph, restricted to the
\* literal nodes, are exactly the symmetries of the problem: each restriction
\* is a symmetry, and every symmetry extends to an automorphism.
C19_AutomorphismsAreTheSymmetries ==
  call.op = "GenerateGraphForSymmetryDetection" =>
    \A s \in Permutations(LiteralNodes(args.problem)) :
      ExtendsToAutomorphism(args.problem, call.graph, s) <=> IsSymmetry(args.problem, s)

\* C19, amended: the same with the canonical constraints counted with their
\* multiplicities.
C19_AutomorphismsAreTheCountedSymmetries ==
  call.op = "GenerateGraphForSymmetryDetection" =>
    \A s \in Permutations(LiteralNodes(args.problem)) :
      ExtendsToAutomorphism(args.problem, call.graph, s)
        <=> IsCountedSymmetry(args.problem, s)
C19_Witness ==
  /\ call.op = "FindLinearBooleanProblemSymmetries"
  /\ call.kept
  /\ Len(args.problem.constraints) = 3
  /\ args.problem.type = "MAXIMIZATION"
  /\ ConstraintNodes(call.graph) # {}

\* ---- The disjunction scenarios: nodes {0 = depot, 1, 2}, one vehicle, node 1
\* at distance near and node 2 at distance far of the depot, and the
\* disjunction {1, 2} with a penalty (kNoPenalty: mandatory).
MaxNear == 2
MaxFar == 5
MaxScenarioPenalty == 3
ScenarioConfig == [nodes |-> 3, vehicles |-> 1, start_end |-> << <<0, 0>> >>]

\* The caller's evaluator: the distance between two nodes.
ScenarioDistance(node_i, node_j) ==
  LET FromDepot(n) == IF n = 0 THEN 0 ELSE IF n = 1 THEN args.near ELSE args.far
  IN IF node_i = node_j THEN 0 ELSE FromDepot(node_i) + FromDepot(node_j)

\* The arc cost elements of the cost variable: the evaluator on every arc of
\* the route from the start back to the depot; inactive nodes cost nothing,
\* and neither does the arc of an empty route.
ArcCostElements(route) ==
  IF route = <<>> THEN 0
  ELSE LET nodes == <<0>> \o [k \in 1..Len(route) |-> IndexToNode(route[k])] \o <<0>>
       IN SumSeq([k \in 1..(Len(nodes) - 1) |-> ScenarioDistance(nodes[k], nodes[k + 1])])

\* The solutions of the closed model: the active nodes allowed by the posted
\* constraints, on a route in some order, with the value of the cost variable.
ScenarioSolutions ==
  {[active |-> a, route |-> route, penalty |-> PenaltyCost(a),
    cost |-> ArcCostElements(route) + PenaltyCost(a)] :
     a \in {a \in ActiveVectors : a[0] = 1 /\ Feasible(a)},
     route \in UNION {[1..n -> 1..2] : n \in 0..2}} 

IsSolution(solution) ==
  /\ \A j, k \in 1..Len(solution.route) : solution.route[j] = solution.route[k] => j = k
  /\ \A i \in 1..2 :
       solution.active[i] = 1 <=> \E k \in 1..Len(solution.route) : solution.route[k] = i

InitScenarioSpec ==
  /\ InitIndex(ScenarioConfig)
  /\ InitCost
  /\ InitLife
  /\ time_limit_ms_ = 0
  /\ InitDom
  /\ InitFilter
  /\ InitOperator
  /\ InitFzSolver
  /\ InitPresolver
  /\ InitNexts
  /\ InitRouteConstructor
  /\ InitCumulFilter
  /\ InitDisjunctionFilter
  /\ InitLimits
  /\ assignment_ = <<>>
  /\ args \in [near : 1..MaxNear, far : (MaxFar - 1)..MaxFar,
               penalty : {kNoPenalty} \cup 0..MaxScenarioPenalty]
  /\ call = NoCall

DoAddScenarioDisjunction ==
  /\ LifeFrame
  /\ disjunctions_ = <<>>
  /\ ~closed_
  /\ AddDisjunctionInternal(<<1, 2>>, args.penalty)

\* The search ends on one of the solutions of the model.
DoCollectSolution ==
  /\ LifeFrame
  /\ closed_
  /\ UNCHANGED lifeVars
  /\ \E solution \in ScenarioSolutions :
       /\ IsSolution(solution)
       /\ call' = [op |-> "Solution", active |-> solution.active, route |-> solution.route,
                   penalty |-> solution.penalty, cost |-> solution.cost]

NextScenario ==
  \/ DoAddScenarioDisjunction
  \/ DoCloseModel
  \/ DoCollectSolution

SpecScenario == InitScenarioSpec /\ [][NextScenario]_vars

OptionalDisjunctionScenario ==
  /\ args.near = 1
  /\ args.far = 5
  /\ args.penalty = 3
  /\ Len(disjunctions_) = 1
IsExpectedSolution ==
  /\ call.op = "Solution"
  /\ \A other \in ScenarioSolutions : IsSolution(other) => call.cost <= other.cost

\* C20: in the optional-disjunction scenario the expected (cheapest) solution
\* has node 1 active and node 2 inactive, with total cost 5: arc cost 2 plus
\* penalty 3.
C20_OptionalDisjunctionCostsFive ==
  (OptionalDisjunctionScenario /\ IsExpectedSolution) =>
    /\ call.active[1] = 1
    /\ call.active[2] = 0
    /\ call.cost - call.penalty = 2
    /\ call.penalty = 3
    /\ call.cost = 5

\* C20, amended: the expected solution has node 1 active and node 2 inactive,
\* with total cost 2: arc cost 2 and no penalty, the penalty being charged
\* only when neither node is active.
C20_OptionalDisjunctionCostsTwo ==
  (OptionalDisjunctionScenario /\ IsExpectedSolution) =>
    /\ call.active[1] = 1
    /\ call.active[2] = 0
    /\ call.cost - call.penalty = 2
    /\ call.penalty = 0
    /\ call.cost = 2
C20_Witness ==
  /\ OptionalDisjunctionScenario
  /\ IsExpectedSolution
  /\ call.route = <<1>>

\* ------------------------------------------------------------------------
\* Search limits: GetOrCreate*Limit, UpdateTimeLimit, UpdateLNSTimeLimit
\* ------------------------------------------------------------------------

\* Solver::MakeLimit makes a limit object from a wall time and a number of
\* solutions (the branch and failure limits are kint64max in every call).
\* Each of limit_, ls_limit_ and lns_limit_ is assigned only by its
\* GetOrCreate function and only while it is NULL, so the searches built by
\* SetupSearch hold the very objects the members name: what a search observes
\* of a limit is the member's current value.
MakeLimit(time, solutions) == [wall_time |-> time, solutions |-> solutions]

\* Solver::UpdateLimits overwrites the fields of the limit it is handed.
UpdateLimits(time, solutions, limit) ==
  [limit EXCEPT !.wall_time = time, !.solutions = solutions]

GetOrCreateLimit ==
  IF limit_ = NULL
  THEN MakeLimit(time_limit_ms_, "FLAGS_routing_solution_limit")
  ELSE limit_

GetOrCreateLocalSearchLimit ==
  IF ls_limit_ = NULL THEN MakeLimit(time_limit_ms_, "1") ELSE ls_limit_

GetOrCreateLargeNeighborhoodSearchLimit ==
  IF lns_limit_ = NULL
  THEN MakeLimit(lns_time_limit_ms_, "kint64max")
  ELSE lns_limit_

\* SetupSearch, run by CloseModel on a model that was not closed:
\* CreateLocalSearchParameters asks for the LNS and the local-search limit,
\* SetupSearchMonitors for the global one.
SetupSearch(was_closed) ==
  IF was_closed
  THEN UNCHANGED <<limit_, ls_limit_, lns_limit_>>
  ELSE /\ limit_' = GetOrCreateLimit
       /\ ls_limit_' = GetOrCreateLocalSearchLimit
       /\ lns_limit_' = GetOrCreateLargeNeighborhoodSearchLimit

UpdatedGlobalLimit(limit_ms) ==
  IF limit_ # NULL
  THEN UpdateLimits(limit_ms, "FLAGS_routing_solution_limit", limit_)
  ELSE limit_

UpdatedLocalSearchLimitStale(limit_ms) == ls_limit_

UpdatedLocalSearchLimit(limit_ms) ==
  IF ls_limit_ # NULL THEN UpdateLimits(limit_ms, "1", ls_limit_) ELSE ls_limit_

\* UpdateTimeLimit stores the limit and updates limit_ and ls_limit_; it
\* does not name lns_limit_.
UpdateTimeLimit(limit_ms) ==
  /\ time_limit_ms_' = limit_ms
  /\ limit_' = UpdatedGlobalLimit(limit_ms)
  /\ ls_limit_' = UpdatedLocalSearchLimit(limit_ms)
  /\ call' = [op |-> "UpdateTimeLimit", limit_ms |-> limit_ms]
  /\ UNCHANGED <<lns_time_limit_ms_, lns_limit_>>
  /\ UNCHANGED <<closed_, status_, disjunctions_, node_to_disjunction_,
                 dimensions_, constraints_, searches_built_>>

\* UpdateLNSTimeLimit does the same for the LNS limit and its own time.
UpdateLNSTimeLimit(limit_ms) ==
  /\ lns_time_limit_ms_' = limit_ms
  /\ lns_limit_' = IF lns_limit_ # NULL
                   THEN UpdateLimits(limit_ms, "kint64max", lns_limit_)
                   ELSE lns_limit_
  /\ call' = [op |-> "UpdateLNSTimeLimit", limit_ms |-> limit_ms]
  /\ UNCHANGED <<limit_, ls_limit_, lifeVars>>

\* ---- SpecLimit: a model is built with the two time-limit flags set to
\* some values; it is closed or solved (which builds the search and with it
\* the limits) and its time limits are updated, in any order.

InitLimitSpec ==
  /\ \E cfg \in LifeConfigs : InitIndex(cfg)
  /\ InitCost
  /\ InitLife
  /\ time_limit_ms_ \in 0..MaxTime
  /\ InitDom
  /\ InitFilter
  /\ InitFzSolver
  /\ InitPresolver
  /\ InitNexts
  /\ InitRouteConstructor
  /\ InitCumulFilter
  /\ InitDisjunctionFilter
  /\ limit_ = NULL /\ ls_limit_ = NULL /\ lns_limit_ = NULL
  /\ lns_time_limit_ms_ \in 0..MaxTime
  /\ InitOperator
  /\ assignment_ = <<>>
  /\ args = NoCall
  /\ call = NoCall

LimitFrame ==
  UNCHANGED <<indexVars, nextsVars, routeConstructorVars, cumulFilterVars, disjunctionFilterVars, costVars, domVars, assignment_, filterVars, opVars, fzVars,
              preVars, args>>

DoCloseModelWithSearch ==
  /\ LimitFrame
  /\ CloseModel
  /\ SetupSearch(closed_)
  /\ UNCHANGED lns_time_limit_ms_

DoSolveWithSearch ==
  /\ LimitFrame
  /\ \E solution_count \in {0, 1}, elapsed_time_ms \in 0..MaxTime,
        stopped_by_time_limit \in BOOLEAN :
       Solve(solution_count, elapsed_time_ms, stopped_by_time_limit)
  /\ SetupSearch(closed_)
  /\ UNCHANGED lns_time_limit_ms_

DoUpdateTimeLimit ==
  /\ LimitFrame
  /\ \E limit_ms \in 0..MaxTime : UpdateTimeLimit(limit_ms)

DoUpdateLNSTimeLimit ==
  /\ LimitFrame
  /\ \E limit_ms \in 0..MaxTime : UpdateLNSTimeLimit(limit_ms)

NextLimit ==
  \/ DoCloseModelWithSearch
  \/ DoSolveWithSearch
  \/ DoUpdateTimeLimit
  \/ DoUpdateLNSTimeLimit

SpecLimit == InitLimitSpec /\ [][NextLimit]_vars

\* What a search holding the limit observes as its wall-time limit.
ObservedTime(limit) == limit.wall_time

\* C21 (as stated): UpdateTimeLimit(t) on a model whose search has been built
\* leaves each of limit_, ls_limit_ and lns_limit_ in place with the wall
\* time t, and a search built right after UpdateTimeLimit(t) gets three
\* limits with the wall time t.
C21_UpdateReachesThreeLimits ==
  [][/\ (call'.op = "UpdateTimeLimit" /\ closed_)
          => /\ ObservedTime(limit_') = call'.limit_ms
             /\ ObservedTime(ls_limit_') = call'.limit_ms
             /\ ObservedTime(lns_limit_') = call'.limit_ms
     /\ (call.op = "UpdateTimeLimit" /\ ~closed_ /\ closed_')
          => /\ ObservedTime(limit_') = call.limit_ms
             /\ ObservedTime(ls_limit_') = call.limit_ms
             /\ ObservedTime(lns_limit_') = call.limit_ms]_vars

\* C21 (amended): UpdateTimeLimit(t) on a model whose search has been built
\* sets the wall time of limit_ and ls_limit_ to t, keeps their solution
\* limits, and leaves lns_limit_ as it was; a search built right after
\* UpdateTimeLimit(t) gets limit_ and ls_limit_ with the wall time t.  At
\* all times the global and the local-search limit carry time_limit_ms_ and
\* the LNS limit carries lns_time_limit_ms_, which only UpdateLNSTimeLimit
\* changes.
C21_UpdateReachesTwoLimits ==
  [][/\ (call'.op = "UpdateTimeLimit" /\ closed_)
          => /\ ObservedTime(limit_') = call'.limit_ms
             /\ ObservedTime(ls_limit_') = call'.limit_ms
             /\ limit_'.solutions = limit_.solutions
             /\ ls_limit_'.solutions = ls_limit_.solutions
             /\ lns_limit_' = lns_limit_
     /\ (call.op = "UpdateTimeLimit" /\ ~closed_ /\ closed_')
          => /\ ObservedTime(limit_') = call.limit_ms
             /\ ObservedTime(ls_limit_') = call.limit_ms
     /\ closed_' => /\ ObservedTime(limit_') = time_limit_ms_'
                    /\ ObservedTime(ls_limit_') = time_limit_ms_'
                    /\ ObservedTime(lns_limit_') = lns_time_limit_ms_'
     /\ (call'.op # "UpdateLNSTimeLimit")
          => lns_time_limit_ms_' = lns_time_limit_ms_]_vars

\* C21 witness: UpdateTimeLimit has changed the deadline of a built search
\* whose LNS limit carries another time.
C21_Witness ==
  /\ call.op = "UpdateTimeLimit" /\ closed_
  /\ limit_ # NULL /\ ls_limit_ # NULL /\ lns_limit_ # NULL
  /\ ObservedTime(limit_) = call.limit_ms
  /\ ObservedTime(lns_limit_) # call.limit_ms
  /\ status_ # "ROUTING_NOT_SOLVED"

\* ------------------------------------------------------------------------
\* The node-disjunction filter: NodeDisjunctionFilter
\* ------------------------------------------------------------------------

\* NodeDisjunctionFilter(routing_model): one counter per disjunction of the
\* model, all 0 (active_per_disjunction_[d + 1] is the counter of
\* DisjunctionIndex d).
NodeDisjunctionFilter ==
  /\ active_per_disjunction_' = [d \in 1..Len(disjunctions_') |-> 0]
  /\ penalty_value_' = 0
  /\ current_objective_value_' = 0
  /\ filter_values_' = Vec(Size, 0)

GetDisjunctionPenalty(d) == disjunctions_[d + 1].penalty

\* NodeDisjunctionFilter::OnSynchronize: the active nodes of every
\* disjunction, counted over the disjunction's own node list, and the sum of
\* the positive penalties of the disjunctions without an active node.
ActivePerDisjunction(values) ==
  [d \in 1..Len(disjunctions_) |->
     LET nodes == disjunctions_[d].nodes IN
     SumSeq([j \in 1..Len(nodes) |-> IF values[nodes[j]] # nodes[j] THEN 1 ELSE 0])]

PenaltyValue(active) ==
  SumSeq([d \in 1..Len(disjunctions_) |->
            IF active[d] = 0 /\ disjunctions_[d].penalty > 0
            THEN disjunctions_[d].penalty ELSE 0])

\* Synchronize(assignment) of the node-disjunction filter.
SynchronizeDisjunctions(assignment) ==
  LET values == [i \in 0..(Size - 1) |-> assignment[NextVar(i)]] IN
  /\ filter_values_' = values
  /\ active_per_disjunction_' = ActivePerDisjunction(values)
  /\ penalty_value_' = PenaltyValue(ActivePerDisjunction(values))
  /\ call' = [op |-> "Synchronize"]
  /\ UNCHANGED <<current_objective_value_, cost_>>

InjectObjectiveValue(objective_value) ==
  /\ current_objective_value_' = objective_value
  /\ call' = [op |-> "InjectObjectiveValue"]
  /\ UNCHANGED <<filter_values_, active_per_disjunction_, penalty_value_, cost_>>

\* First loop of Accept, one element of the delta: +1 when the node was
\* inactive and the element's range leaves out the node's own index, -1 when
\* the node was active and the range holds it.
ActiveDelta(container, index) ==
  LET was_inactive == filter_values_[index] = index
      is_inactive == container[index].Min <= index /\ container[index].Max >= index
  IN IF was_inactive /\ ~is_inactive THEN 1
     ELSE IF ~was_inactive /\ is_inactive THEN -1
     ELSE 0

\* The elements of the delta Accept looks at: next variables of nodes that
\* GetDisjunctionIndexFromVariableIndex gives a disjunction for, which is
\* the last disjunction the node was declared in.
DisjunctionElements(container) ==
  {index \in DOMAIN container : node_to_disjunction_[index] # kNoDisjunction}

\* disjunction_active_deltas: an entry is made by the first increment or
\* decrement of a disjunction.
DisjunctionActiveDeltas(container) ==
  [d \in {node_to_disjunction_[index] :
            index \in {i \in DisjunctionElements(container) :
                         ActiveDelta(container, i) # 0}} |->
     SumSeq([k \in 1..Size |->
               IF (k - 1) \in DisjunctionElements(container)
                  /\ node_to_disjunction_[k - 1] = d
               THEN ActiveDelta(container, k - 1) ELSE 0])]

LnsDetectedNever(container) == FALSE

LnsDetected(container) ==
  \E index \in DisjunctionElements(container) :
     container[index].Min # container[index].Max

TooManyActiveNever(deltas) == FALSE

\* The first test of Accept's second loop.
TooManyActive(deltas) ==
  \E d \in DOMAIN deltas : active_per_disjunction_[d + 1] + deltas[d] > 1

NewObjectiveValue(deltas) ==
  current_objective_value_ + penalty_value_
    + SumSeq([k \in 1..Len(disjunctions_) |->
                IF (k - 1) \in DOMAIN deltas
                THEN IF deltas[k - 1] < 0 THEN GetDisjunctionPenalty(k - 1)
                     ELSE IF deltas[k - 1] > 0 THEN 0 - GetDisjunctionPenalty(k - 1)
                     ELSE 0
                ELSE 0])

\* NodeDisjunctionFilter::Accept(delta, deltadelta): the value returned.
NodeDisjunctionFilterAccept(container) ==
  LET deltas == DisjunctionActiveDeltas(container) IN
  IF TooManyActive(deltas) THEN FALSE
  ELSE IF LnsDetected(container) THEN TRUE
  ELSE IF \E d \in DOMAIN deltas : deltas[d] < 0 /\ GetDisjunctionPenalty(d) < 0
       THEN FALSE
  ELSE /\ NewObjectiveValue(deltas) <= cost_.Max
       /\ NewObjectiveValue(deltas) >= cost_.Min

\* ------------------------------------------------------------------------
\* SpecDisjunction: a model of one vehicle from depot 0 and three visit
\* nodes; the caller declares its disjunctions and closes the model, which
\* makes the filter; the local search synchronizes the filter with a
\* solution, injects an objective value and asks about a delta
\* ------------------------------------------------------------------------
DisjunctionConfig == [nodes |-> 4, vehicles |-> 1, start_end |-> << <<0, 0>> >>]

\* At most MaxFilterDisjunctions disjunctions are declared, a delta holds at
\* most MaxDisjunctionDelta variables, the injected objective value is
\* 0..MaxObjective and the cost variable's maximum is MaxCostBound.
MaxFilterDisjunctions == 2
MaxDisjunctionDelta == 2
MaxObjective == 1
MaxCostBound == 1

\* The disjunctions declared: {1, 2} first, then none, {3} or {2, 3} (which
\* shares node 2 with the first), each mandatory or with a penalty.
FilterPenalties == {kNoPenalty} \cup 1..MaxPenalty
FilterDisjunctionLists ==
  {<<[nodes |-> <<1, 2>>, penalty |-> p]>> : p \in FilterPenalties}
    \cup (IF MaxFilterDisjunctions < 2 THEN {}
          ELSE {<<[nodes |-> <<1, 2>>, penalty |-> p], [nodes |-> n, penalty |-> q]>> :
                  p \in FilterPenalties, q \in FilterPenalties,
                  n \in {<<3>>, <<2, 3>>}})

\* The synchronized solutions: the route of the vehicle visits a set of the
\* nodes 1..3 in increasing order.
DisjunctionRoutes ==
  {r \in UNION {[1..n -> 1..3] : n \in 0..3} :
     \A i, j \in 1..Len(r) : i < j => r[i] < r[j]}

\* A solution satisfies the constraint CloseModel posts for each disjunction:
\* at most one of its nodes is visited, exactly one when it is mandatory.
IsDisjunctionSolution(route, disjunctions) ==
  \A d \in 1..Len(disjunctions) :
     LET visited == Cardinality({k \in 1..Len(disjunctions[d].nodes) :
                                   \E i \in 1..Len(route) :
                                      route[i] = disjunctions[d].nodes[k]})
     IN /\ visited <= 1
        /\ disjunctions[d].penalty < 0 => visited = 1

\* The elements of a delta for the next variable of index: bound to the
\* index itself, bound to the end, and the ranges from the index or from
\* its successor to the end.
DisjunctionDeltaElements(index) ==
  {[Min |-> lo, Max |-> 4] : lo \in {index, index + 1, 4}}
    \cup {[Min |-> index, Max |-> index]}
DisjunctionDeltas ==
  UNION {{c \in [vs -> UNION {DisjunctionDeltaElements(i) : i \in vs}] :
            \A i \in vs : c[i] \in DisjunctionDeltaElements(i)} :
           vs \in {s \in SUBSET (1..3) : Cardinality(s) <= MaxDisjunctionDelta}}

InitDisjunctionSpec ==
  /\ InitIndex(DisjunctionConfig)
  /\ InitCost
  /\ InitLife
  /\ time_limit_ms_ = 0
  /\ InitDom
  /\ InitFilter
  /\ InitFzSolver
  /\ InitPresolver
  /\ InitNexts
  /\ InitRouteConstructor
  /\ InitCumulFilter
  /\ InitLimits
  /\ active_per_disjunction_ = <<>>
  /\ penalty_value_ = 0
  /\ current_objective_value_ = 0
  /\ cost_ \in [Min : 0..1, Max : {MaxCostBound}]
  /\ InitOperator
  /\ assignment_ = <<>>
  /\ args \in {a \in [disjunctions : FilterDisjunctionLists,
                      route : DisjunctionRoutes,
                      delta : DisjunctionDeltas,
                      objective_value : 0..MaxObjective] :
                 IsDisjunctionSolution(a.route, a.disjunctions)}
  /\ call = NoCall

DisjunctionFrame ==
  UNCHANGED <<indexVars, nextsVars, routeConstructorVars, cumulFilterVars, limitVars, costVars, domVars, assignment_, opVars, fzVars,
              preVars, args>>

\* The caller declares its next disjunction.
DoAddFilterDisjunction ==
  /\ DisjunctionFrame
  /\ ~closed_
  /\ Len(disjunctions_) < Len(args.disjunctions)
  /\ LET d == args.disjunctions[Len(disjunctions_) + 1] IN
     AddDisjunctionInternal(d.nodes, d.penalty)
  /\ UNCHANGED <<filterVars, disjunctionFilterVars>>

\* CloseModel; building the search makes the filter for the disjunctions.
DoCloseModelWithDisjunctionFilter ==
  /\ DisjunctionFrame
  /\ ~closed_
  /\ Len(disjunctions_) = Len(args.disjunctions)
  /\ CloseModel
  /\ NodeDisjunctionFilter
  /\ UNCHANGED <<pair_firsts_, pair_seconds_, node_path_starts_, cost_>>

DoSynchronizeDisjunctions ==
  /\ DisjunctionFrame
  /\ closed_
  /\ call.op = "CloseModel"
  /\ SynchronizeDisjunctions(
       RoutesToAssignment(<<args.route>>, FALSE, TRUE, <<>>, FALSE).assignment)
  /\ UNCHANGED <<lifeVars, pair_firsts_, pair_seconds_, node_path_starts_>>

DoInjectObjectiveValue ==
  /\ DisjunctionFrame
  /\ call.op = "Synchronize"
  /\ InjectObjectiveValue(args.objective_value)
  /\ UNCHANGED <<lifeVars, pair_firsts_, pair_seconds_, node_path_starts_>>

DoAcceptDisjunctions ==
  /\ DisjunctionFrame
  /\ call.op = "InjectObjectiveValue"
  /\ call' = [op |-> "Accept", result |-> NodeDisjunctionFilterAccept(args.delta)]
  /\ UNCHANGED <<lifeVars, filterVars, disjunctionFilterVars>>

NextDisjunction ==
  \/ DoAddFilterDisjunction
  \/ DoCloseModelWithDisjunctionFilter
  \/ DoSynchronizeDisjunctions
  \/ DoInjectObjectiveValue
  \/ DoAcceptDisjunctions

SpecDisjunction == InitDisjunctionSpec /\ [][NextDisjunction]_vars

\* ---- what the delta leaves of the disjunctions

AllBound(container) ==
  \A index \in DOMAIN container : container[index].Min = container[index].Max

\* The next value of index after a delta whose elements are bound.
ValueAfter(container, index) ==
  IF index \in DOMAIN container THEN container[index].Min ELSE filter_values_[index]

\* The number of nodes of disjunction d + 1 of disjunctions_ that are active
\* after the delta.
ActiveAfter(container, d) ==
  Cardinality({k \in 1..Len(disjunctions_[d].nodes) :
                 ValueAfter(container, disjunctions_[d].nodes[k])
                   # disjunctions_[d].nodes[k]})

ObjectiveAfter(container) ==
  current_objective_value_
    + SumSeq([d \in 1..Len(disjunctions_) |->
                IF ActiveAfter(container, d) = 0 THEN disjunctions_[d].penalty ELSE 0])

ShouldReject(container) ==
  \/ \E d \in 1..Len(disjunctions_) : ActiveAfter(container, d) > 1
  \/ \E d \in 1..Len(disjunctions_) :
        disjunctions_[d].penalty = kNoPenalty /\ ActiveAfter(container, d) = 0
  \/ ObjectiveAfter(container) < cost_.Min
  \/ ObjectiveAfter(container) > cost_.Max

\* No node has been declared in two disjunctions.
DisjointDisjunctions ==
  \A d, e \in 1..Len(disjunctions_) :
     d # e => \A k \in 1..Len(disjunctions_[d].nodes), l \in 1..Len(disjunctions_[e].nodes) :
                 disjunctions_[d].nodes[k] # disjunctions_[e].nodes[l]

\* C22: for a delta whose elements are all bound, the node-disjunction filter
\* rejects exactly when some disjunction would have more than one active
\* node after the delta, or a mandatory disjunction would have none, or the
\* injected objective value plus the penalties of the disjunctions without
\* an active node after the delta is outside [Min, Max] of the cost variable.
C22_BoundDeltaRejectedIff ==
  (call.op = "Accept" /\ AllBound(args.delta))
    => (~call.result <=> ShouldReject(args.delta))

\* The same while every node is in at most one disjunction.
C22_DisjointDisjunctions ==
  (call.op = "Accept" /\ AllBound(args.delta) /\ DisjointDisjunctions)
    => (~call.result <=> ShouldReject(args.delta))

\* The case of C22: a bound delta that changes which nodes are active is
\* rejected for the objective alone.
C22_DisjointWitness ==
  /\ call.op = "Accept" /\ AllBound(args.delta) /\ DisjointDisjunctions
  /\ Len(disjunctions_) = MaxFilterDisjunctions
  /\ DOMAIN DisjunctionActiveDeltas(args.delta) # {}
  /\ ~call.result
  /\ \A d \in 1..Len(disjunctions_) : ActiveAfter(args.delta, d) <= 1

\* The nodes of disjunction d (a DisjunctionIndex) active in the synchronized
\* solution, plus the nodes recorded for d that the delta activates for sure
\* (inactive before, own index outside the element's range), minus the
\* nodes recorded for d that the delta may deactivate (active before, own
\* index inside the range).
SurelyActiveAfter(container, d) ==
  Cardinality({k \in 1..Len(disjunctions_[d + 1].nodes) :
                 filter_values_[disjunctions_[d + 1].nodes[k]]
                   # disjunctions_[d + 1].nodes[k]})
    + Cardinality({i \in DOMAIN container :
                     /\ node_to_disjunction_[i] = d
                     /\ filter_values_[i] = i
                     /\ (container[i].Min > i \/ container[i].Max < i)})
    - Cardinality({i \in DOMAIN container :
                     /\ node_to_disjunction_[i] = d
                     /\ filter_values_[i] # i
                     /\ container[i].Min <= i /\ container[i].Max >= i})

\* C23 (as stated): a delta with an element of a disjunction node's next
\* variable that is not bound is accepted, whatever else it holds.
C23_LnsAcceptedUnconditionally ==
  (call.op = "Accept" /\ LnsDetected(args.delta)) => call.result

\* C23 (amended): such a delta is accepted unless some disjunction would
\* count more than one active node (the active nodes of the synchronized
\* solution, plus the sure activations, minus the possible deactivations of
\* the delta); mandatory disjunctions and the objective are not tested.
C23_LnsAcceptedUnlessTwoActive ==
  (call.op = "Accept" /\ LnsDetected(args.delta))
    => (call.result
          <=> \A d \in 0..(Len(disjunctions_) - 1) :
                 SurelyActiveAfter(args.delta, d) <= 1)

\* C23 witness: an LNS delta rejected, and one accepted that leaves a
\* mandatory disjunction without an active node.
C23_Witness ==
  /\ call.op = "Accept" /\ LnsDetected(args.delta)
  /\ ~call.result
  /\ DisjointDisjunctions

C23_AcceptedWitness ==
  /\ call.op = "Accept" /\ LnsDetected(args.delta)
  /\ call.result
  /\ \E d \in 1..Len(disjunctions_) :
        /\ disjunctions_[d].penalty = kNoPenalty
        /\ \A k \in 1..Len(disjunctions_[d].nodes) :
              /\ disjunctions_[d].nodes[k] \in DOMAIN args.delta
              /\ args.delta[disjunctions_[d].nodes[k]].Max = disjunctions_[d].nodes[k]

\* ------------------------------------------------------------------------
\* The path-cumul filter: BasePathFilter::Accept with
\* PathCumulFilter::AcceptPath, one loop iteration per step
\* ------------------------------------------------------------------------

\* evaluator_->Run(node, next): the evaluators a dimension is declared with
\* give the same transit on every arc.
Transit(node, next) == evaluator_

\* First loop of BasePathFilter::Accept: the starts of the paths of the
\* delta's variables, each once (here in the order of the variables'
\* indices).
RECURSIVE TouchedPathsFrom(_, _, _)
TouchedPathsFrom(container, index, touched_paths) ==
  IF index >= Size THEN touched_paths
  ELSE LET start == node_path_starts_[index] IN
       TouchedPathsFrom(container, index + 1,
         IF /\ index \in DOMAIN container
            /\ start # kUnassigned
            /\ \A k \in 1..Len(touched_paths) : touched_paths[k] # start
         THEN Append(touched_paths, start) ELSE touched_paths)

\* Accept is entered: the touched paths are found and the walk of the first
\* one starts at its start with the minimum of the start's cumul variable.
StartAccept(container) ==
  LET touched_paths == TouchedPathsFrom(container, 0, <<>>) IN
  /\ touched_paths_' = touched_paths
  /\ accept_i_' = 0
  /\ IF Len(touched_paths) = 0
     THEN /\ accept_pc_' = "done"
          /\ call' = [op |-> "Accept", result |-> TRUE]
          /\ UNCHANGED <<path_node_, path_cumul_>>
     ELSE /\ accept_pc_' = "path"
          /\ call' = [op |-> "AcceptPath", odd |-> FALSE]
          /\ path_node_' = touched_paths[1]
          /\ path_cumul_' = cumuls_[touched_paths[1]].Min

\* AcceptPath has returned true for touched path accept_i_: Accept goes to
\* the next touched path or returns true.
PathAccepted ==
  IF accept_i_ + 1 < Len(touched_paths_)
  THEN /\ accept_i_' = accept_i_ + 1
       /\ path_node_' = touched_paths_[accept_i_ + 2]
       /\ path_cumul_' = cumuls_[touched_paths_[accept_i_ + 2]].Min
       /\ UNCHANGED <<accept_pc_, call>>
  ELSE /\ accept_pc_' = "done"
       /\ call' = [op |-> "Accept", result |-> TRUE]
       /\ UNCHANGED <<accept_i_, path_node_, path_cumul_>>

Max2(a, b) == IF a >= b THEN a ELSE b

\* One evaluation of the loop condition of PathCumulFilter::AcceptPath and,
\* when it holds, one run of the loop body; call tells the rounds of the
\* loop apart (odd or even).
PathStep(container) ==
  IF ~(path_node_ < Size) THEN PathAccepted
  ELSE LET next == GetNext(container, path_node_) IN
       IF next = kUnassigned THEN PathAccepted
       ELSE LET cumul == path_cumul_ + Transit(path_node_, next) IN
            IF cumul > cumuls_[next].Max
            THEN /\ accept_pc_' = "done"
                 /\ call' = [op |-> "Accept", result |-> FALSE]
                 /\ UNCHANGED <<accept_i_, path_node_, path_cumul_>>
            ELSE /\ path_cumul_' = Max2(cumuls_[next].Min, cumul)
                 /\ path_node_' = next
                 /\ call' = [op |-> "AcceptPath", odd |-> ~call.odd]
                 /\ UNCHANGED <<accept_pc_, accept_i_>>

\* ------------------------------------------------------------------------
\* SpecCumul: a model of one vehicle from depot 0 and two visit nodes with
\* one dimension; CloseModel makes the path-cumul filter, the local search
\* synchronizes it with an assignment and asks it about a delta
\* ------------------------------------------------------------------------
CumulConfig == [nodes |-> 3, vehicles |-> 1, start_end |-> << <<0, 0>> >>]

\* The cumul variables range within 0..MaxCumul, a transit is 0..MaxTransit
\* and a delta holds at most MaxCumulDelta variables.
MaxCumul == 2
MaxTransit == 1
MaxCumulDelta == 2

\* The domains of the cumul variables: any interval for node 1, the start's
\* from 0 or 1, the whole range for node 2 and for the end.
CumulDomains ==
  {[Min |-> lo, Max |-> hi] : lo \in 0..MaxCumul, hi \in 0..MaxCumul} \ 
    {d \in [Min : 0..MaxCumul, Max : 0..MaxCumul] : d.Min > d.Max}
CumulVectors ==
  {c \in [0..3 -> CumulDomains] :
     /\ c[0].Max = MaxCumul /\ c[0].Min <= 1
     /\ c[2] = [Min |-> 0, Max |-> MaxCumul]
     /\ c[3] = [Min |-> 0, Max |-> MaxCumul]}

\* The synchronized assignments: the vehicle's route over the nodes 1 and 2.
CumulRoutes == {<<>>, <<1>>, <<2>>, <<1, 2>>, <<2, 1>>}

\* The deltas: elements for at most MaxCumulDelta next variables, each bound
\* to an index that is not the start, or not bound.
CumulDeltas ==
  UNION {[vs -> {[bound |-> TRUE, value |-> v] : v \in 1..3}
                  \cup {[bound |-> FALSE, value |-> 0]}] :
           vs \in {s \in SUBSET (0..2) : Cardinality(s) <= MaxCumulDelta}}

InitCumulSpec ==
  /\ InitIndex(CumulConfig)
  /\ InitCost
  /\ InitLife
  /\ time_limit_ms_ = 0
  /\ InitDom
  /\ InitFilter
  /\ InitFzSolver
  /\ InitPresolver
  /\ InitNexts
  /\ InitRouteConstructor
  /\ InitLimits
  /\ InitDisjunctionFilter
  /\ InitCumulFilter
  /\ InitOperator
  /\ assignment_ = <<>>
  /\ args = NoCall
  /\ call = NoCall

CumulFrame ==
  UNCHANGED <<indexVars, nextsVars, routeConstructorVars, disjunctionFilterVars, limitVars, costVars, domVars,
              assignment_, opVars, fzVars, preVars>>

\* CloseModel; building the search makes the filter of the dimension, from
\* the dimension's cumul variables and its transit evaluator.
DoCloseModelWithCumulFilter ==
  /\ CumulFrame
  /\ ~closed_
  /\ CloseModel
  /\ cumuls_' \in CumulVectors
  /\ evaluator_' \in 0..MaxTransit
  /\ UNCHANGED args
  /\ node_path_starts_' = Vec(Size + vehicles_, 0)
  /\ filter_values_' = Vec(Size, 0)
  /\ UNCHANGED <<pair_firsts_, pair_seconds_, accept_pc_, touched_paths_, accept_i_,
                 path_node_, path_cumul_>>

DoSynchronizeCumul ==
  /\ CumulFrame
  /\ closed_ /\ call.op = "CloseModel"
  /\ \E route \in CumulRoutes :
       Synchronize(RoutesToAssignment(<<route>>, FALSE, TRUE, <<>>, FALSE).assignment)
  /\ UNCHANGED <<lifeVars, args, cumuls_, evaluator_, accept_pc_, touched_paths_,
                 accept_i_, path_node_, path_cumul_>>

DoStartAccept ==
  /\ CumulFrame
  /\ call.op = "Synchronize" /\ accept_pc_ = "idle"
  /\ \E delta \in CumulDeltas : StartAccept(delta) /\ args' = [delta |-> delta]
  /\ UNCHANGED <<lifeVars, filterVars, cumuls_, evaluator_>>

DoPathStep ==
  /\ CumulFrame
  /\ accept_pc_ = "path"
  /\ PathStep(args.delta)
  /\ UNCHANGED <<lifeVars, filterVars, args, cumuls_, evaluator_, touched_paths_>>

NextCumul ==
  \/ DoCloseModelWithCumulFilter
  \/ DoSynchronizeCumul
  \/ DoStartAccept
  \/ DoPathStep

\* The filter's code runs on: a step that can be taken is taken.
SpecCumul == InitCumulSpec /\ [][NextCumul]_vars /\ WF_vars(NextCumul)

\* ---- the walk the filter is specified by

\* Walking forward from node with the value cumul: the value, updated as
\* max(cumul_min[next], cumul + transit(node, next)), never exceeds
\* cumul_max[next] before the path's end or an unbound successor is
\* reached.  seen holds the (node, value) pairs the walk has been at: a walk
\* that comes back to one goes round for ever without exceeding anything.
RECURSIVE StaysWithin(_, _, _, _)
StaysWithin(container, node, cumul, seen) ==
  IF node >= Size THEN TRUE
  ELSE LET next == GetNext(container, node) IN
       IF next = kUnassigned THEN TRUE
       ELSE LET value == Max2(cumuls_[next].Min, cumul + Transit(node, next)) IN
            IF value > cumuls_[next].Max THEN FALSE
            ELSE IF <<next, value>> \in seen THEN TRUE
            ELSE StaysWithin(container, next, value, seen \cup {<<next, value>>})

\* The walk from node comes to the path's end, to an unbound successor or to
\* a value above the maximum.
RECURSIVE WalkEnds(_, _, _, _)
WalkEnds(container, node, cumul, seen) ==
  IF node >= Size THEN TRUE
  ELSE LET next == GetNext(container, node) IN
       IF next = kUnassigned THEN TRUE
       ELSE LET value == Max2(cumuls_[next].Min, cumul + Transit(node, next)) IN
            IF value > cumuls_[next].Max THEN TRUE
            ELSE IF <<next, value>> \in seen THEN FALSE
            ELSE WalkEnds(container, next, value, seen \cup {<<next, value>>})

TouchedPathsStayWithin ==
  \A k \in 1..Len(touched_paths_) :
     StaysWithin(args.delta, touched_paths_[k], cumuls_[touched_paths_[k]].Min, {})

TouchedWalksEnd ==
  \A k \in 1..Len(touched_paths_) :
     WalkEnds(args.delta, touched_paths_[k], cumuls_[touched_paths_[k]].Min, {})

\* C24: the filter accepts the touched paths exactly when the walk of each
\* stays within the maxima: asked about a delta, it answers true if every
\* walk does and false if one does not.
C24_AcceptsIffWalkStaysWithin ==
  /\ (accept_pc_ = "path" /\ TouchedPathsStayWithin)
       ~> (accept_pc_ = "done" /\ call.result)
  /\ (accept_pc_ = "path" /\ ~TouchedPathsStayWithin)
       ~> (accept_pc_ = "done" /\ ~call.result)

\* The answers the filter does give are the ones C24 states.
C24_AnswersAreRight ==
  accept_pc_ = "done" => (call.result <=> TouchedPathsStayWithin)

\* Asked about a delta whose walks all end, the filter answers as C24
\* states.
C24_EndingWalks ==
  /\ (accept_pc_ = "path" /\ TouchedWalksEnd /\ TouchedPathsStayWithin)
       ~> (accept_pc_ = "done" /\ call.result)
  /\ (accept_pc_ = "path" /\ TouchedWalksEnd /\ ~TouchedPathsStayWithin)
       ~> (accept_pc_ = "done" /\ ~call.result)

\* C29: PathCumulFilter::AcceptPath terminates for every delta: Accept,
\* once it walks a path, comes to its answer.
C29_AcceptPathTerminates == (accept_pc_ = "path") ~> (accept_pc_ = "done")

\* ------------------------------------------------------------------------
\* RouteConstructor: the routes built from a list of links (Savings, Sweep)
\* ------------------------------------------------------------------------

\* routes_[r + 1] is the route of index r; a chain is [head, tail, nodes] and
\* chains_[c + 1] the chain of index c.

\* First loop of Construct: every node that is neither a start nor an end is
\* a route of its own.
RECURSIVE InitialRoutes(_, _)
InitialRoutes(node, st) ==
  IF node >= nodes_ THEN st
  ELSE IF ~IsStart(node) /\ ~IsEnd(node)
       THEN InitialRoutes(node + 1,
              [routes |-> Append(st.routes, <<node>>),
               in_route |-> [st.in_route EXCEPT ![node] = Len(st.routes)]])
       ELSE InitialRoutes(node + 1, st)

\* RouteConstructor(...) followed by the first loop of Construct.
StartConstruct(check_assignment) ==
  LET st == InitialRoutes(0, [routes |-> <<>>, in_route |-> Vec(nodes_, -1)]) IN
  /\ routes_' = st.routes
  /\ in_route_' = st.in_route
  /\ deleted_routes_' = {}
  /\ chains_' = <<>>
  /\ deleted_chains_' = {}
  /\ node_to_chain_index_' = Vec(nodes_, -1)
  /\ node_to_vehicle_class_index_' = Vec(nodes_, -1)
  /\ no_more_feasible_routes_' = FALSE
  /\ check_assignment_' = check_assignment
  /\ assignment_' = <<>>
  /\ call' = [op |-> "Construct"]

\* Head(node) and Tail(node) of the source.
IsHead(node) == node = routes_[in_route_[node] + 1][1]
IsTail(node) ==
  node = routes_[in_route_[node] + 1][Len(routes_[in_route_[node] + 1])]

VehicleClassCheckAlways(node1, node2, vehicle_class) == TRUE

\* The vehicle class check of FeasibleMerge.
VehicleClassCheck(node1, node2, vehicle_class) ==
  \/ /\ node_to_vehicle_class_index_[node1] = -1
     /\ node_to_vehicle_class_index_[node2] = -1
  \/ /\ node_to_vehicle_class_index_[node1] = vehicle_class
     /\ node_to_vehicle_class_index_[node2] = -1
  \/ /\ node_to_vehicle_class_index_[node1] = -1
     /\ node_to_vehicle_class_index_[node2] = vehicle_class
  \/ /\ node_to_vehicle_class_index_[node1] = vehicle_class
     /\ node_to_vehicle_class_index_[node2] = vehicle_class

\* FeasibleMerge on a model without dimensions: the loop over the
\* dimensions has nothing to check.
FeasibleMerge(node1, node2, vehicle_class) ==
  IF in_route_[node1] = in_route_[node2] \/ ~(IsTail(node1) /\ IsHead(node2))
  THEN FALSE
  ELSE IF ~VehicleClassCheck(node1, node2, vehicle_class) THEN FALSE
  ELSE TRUE

\* UpdateAssignment(route1, route2): the chains, the flag and the assignment
\* afterwards, and the value returned.  solved is the answer of the solver to
\* CheckTempAssignment, asked only with check_assignment_.
UpdateAssignment(route1, route2, solved) ==
  LET head1 == route1[1]
      tail1 == route1[Len(route1)]
      head2 == route2[1]
      tail2 == route2[Len(route2)]
      chain_index1 == node_to_chain_index_[head1]
      chain_index2 == node_to_chain_index_[head2]
      feasible == IF check_assignment_ THEN solved ELSE TRUE
      same == [feasible |-> FALSE, chains |-> chains_,
               deleted_chains |-> deleted_chains_,
               node_to_chain_index |-> node_to_chain_index_,
               no_more_feasible_routes |-> no_more_feasible_routes_,
               assignment |-> assignment_]
      linked == SetValue(assignment_, NextVar(tail1), head2)
  IN
  IF chain_index1 < 0 /\ chain_index2 < 0
  THEN IF Len(chains_) >= vehicles_
       THEN [same EXCEPT !.no_more_feasible_routes = TRUE]
       ELSE IF ~feasible THEN same
       ELSE [same EXCEPT
               !.feasible = TRUE,
               !.chains = Append(chains_, [head |-> head1, tail |-> tail2, nodes |-> 2]),
               !.node_to_chain_index =
                  [node_to_chain_index_ EXCEPT ![head1] = Len(chains_),
                                               ![tail2] = Len(chains_)],
               !.assignment = linked]
  ELSE IF ~feasible THEN same
  ELSE IF chain_index1 >= 0 /\ chain_index2 < 0
  THEN [same EXCEPT
          !.feasible = TRUE,
          !.node_to_chain_index = [node_to_chain_index_ EXCEPT ![tail2] = chain_index1],
          !.chains = [chains_ EXCEPT ![chain_index1 + 1] =
                        [head |-> head1, tail |-> tail2, nodes |-> @.nodes + 1]],
          !.assignment = linked]
  ELSE IF chain_index1 < 0 /\ chain_index2 >= 0
  THEN [same EXCEPT
          !.feasible = TRUE,
          !.node_to_chain_index = [node_to_chain_index_ EXCEPT ![head1] = chain_index2],
          !.chains = [chains_ EXCEPT ![chain_index2 + 1] =
                        [head |-> head1, tail |-> tail2, nodes |-> @.nodes + 1]],
          !.assignment = linked]
  ELSE [same EXCEPT
          !.feasible = TRUE,
          !.node_to_chain_index = [node_to_chain_index_ EXCEPT ![tail2] = chain_index1],
          !.chains = [chains_ EXCEPT ![chain_index1 + 1] =
                        [head |-> head1, tail |-> tail2,
                         nodes |-> @.nodes + chains_[chain_index2 + 1].nodes]],
          !.deleted_chains = deleted_chains_ \cup {chain_index2},
          !.assignment = linked]

\* Merge(merge, index1, index2): with a feasible update the nodes of route
\* index2 are appended to route index1 and pointed at it.
Merge(merge, index1, index2, solved) ==
  LET u == UpdateAssignment(routes_[index1 + 1], routes_[index2 + 1], solved)
      merged == merge /\ u.feasible
  IN
  /\ IF merge
     THEN /\ chains_' = u.chains
          /\ deleted_chains_' = u.deleted_chains
          /\ node_to_chain_index_' = u.node_to_chain_index
          /\ no_more_feasible_routes_' = u.no_more_feasible_routes
          /\ assignment_' = u.assignment
     ELSE UNCHANGED <<chains_, deleted_chains_, node_to_chain_index_,
                      no_more_feasible_routes_, assignment_>>
  /\ IF merged
     THEN /\ in_route_' = [node \in DOMAIN in_route_ |->
                             IF \E k \in 1..Len(routes_[index2 + 1]) :
                                   routes_[index2 + 1][k] = node
                             THEN index1 ELSE in_route_[node]]
          /\ routes_' = [routes_ EXCEPT ![index1 + 1] = @ \o routes_[index2 + 1]]
          /\ deleted_routes_' = deleted_routes_ \cup {index2}
     ELSE UNCHANGED <<routes_, in_route_, deleted_routes_>>

\* One iteration of the loop of Construct over links_list_, for the link
\* (node1, node2) of vehicle_class.
ConstructLink(node1, node2, vehicle_class, solved) ==
  LET merge == FeasibleMerge(node1, node2, vehicle_class)
      merged == merge /\ UpdateAssignment(routes_[in_route_[node1] + 1],
                                          routes_[in_route_[node2] + 1], solved).feasible
  IN
  /\ ~no_more_feasible_routes_
  /\ Merge(merge, in_route_[node1], in_route_[node2], solved)
  /\ node_to_vehicle_class_index_' =
       IF merged
       THEN [node_to_vehicle_class_index_ EXCEPT ![node1] = vehicle_class,
                                                 ![node2] = vehicle_class]
       ELSE node_to_vehicle_class_index_
  /\ call' = [op |-> "Link", node1 |-> node1, node2 |-> node2,
              vehicle_class |-> vehicle_class, merged |-> merged]
  /\ UNCHANGED check_assignment_

\* ------------------------------------------------------------------------
\* SpecConstructor: a model of two vehicles from depot 0 with four visit
\* nodes and no dimension; a first-solution builder makes a RouteConstructor
\* and Construct goes through the links of its list, whatever they are
\* ------------------------------------------------------------------------
ConstructorConfig == [nodes |-> 5, vehicles |-> 2, start_end |-> << <<0, 0>>, <<0, 0>> >>]

\* The links name vehicle classes 0..MaxVehicleClass.
MaxVehicleClass == 1

\* The nodes a link may name: the callers leave out the depot.
LinkNodes == {node \in 0..(nodes_ - 1) : ~IsStart(node) /\ ~IsEnd(node)}

InitConstructorSpec ==
  /\ InitIndex(ConstructorConfig)
  /\ InitCost
  /\ InitLife
  /\ time_limit_ms_ = 0
  /\ InitDom
  /\ InitFilter
  /\ InitFzSolver
  /\ InitPresolver
  /\ InitNexts
  /\ InitLimits
  /\ InitDisjunctionFilter
  /\ InitCumulFilter
  /\ InitRouteConstructor
  /\ InitOperator
  /\ assignment_ = <<>>
  /\ args = NoCall
  /\ call = NoCall

ConstructorFrame ==
  UNCHANGED <<indexVars, nextsVars, cumulFilterVars, disjunctionFilterVars, limitVars, costVars,
              lifeVars, domVars, filterVars, opVars, fzVars, preVars, args>>

DoStartConstruct ==
  /\ ConstructorFrame
  /\ call.op = "none"
  /\ \E check_assignment \in BOOLEAN : StartConstruct(check_assignment)

DoConstructLink ==
  /\ ConstructorFrame
  /\ call.op \in {"Construct", "Link"}
  /\ \E node1 \in LinkNodes, vehicle_class \in 0..MaxVehicleClass, solved \in BOOLEAN :
       \E node2 \in LinkNodes \ {node1} :
          ConstructLink(node1, node2, vehicle_class, solved)

NextConstructor ==
  \/ DoStartConstruct
  \/ DoConstructLink

SpecConstructor == InitConstructorSpec /\ [][NextConstructor]_vars

\* C25: a link (n1, n2, vehicle class) merges two routes only if n1 is the
\* last node of its route, n2 the first node of its route, the routes are
\* distinct and the vehicle classes recorded for n1 and n2 are each
\* unassigned or the link's; after the merge every node of the absorbed
\* route is recorded as belonging to the surviving route, which is the one
\* route followed by the other.
C25_MergeOnlyWhenFeasible ==
  [][(call'.op = "Link" /\ call'.merged) =>
       LET n1 == call'.node1
           n2 == call'.node2
           route1 == routes_[in_route_[n1] + 1]
           route2 == routes_[in_route_[n2] + 1]
       IN /\ route1[Len(route1)] = n1
          /\ route2[1] = n2
          /\ in_route_[n1] # in_route_[n2]
          /\ node_to_vehicle_class_index_[n1] \in {-1, call'.vehicle_class}
          /\ node_to_vehicle_class_index_[n2] \in {-1, call'.vehicle_class}
          /\ \A k \in 1..Len(route2) : in_route_'[route2[k]] = in_route_[n1]
          /\ routes_'[in_route_[n1] + 1] = route1 \o route2
          /\ in_route_[n2] \in deleted_routes_']_vars

\* C25 witness: a route of two nodes has absorbed another route of two nodes.
C25_Witness ==
  /\ call.op = "Link" /\ call.merged
  /\ Len(routes_[in_route_[call.node1] + 1]) = 4
  /\ routes_[in_route_[call.node1] + 1][3] = call.node2
  /\ deleted_chains_ # {}

\* ------------------------------------------------------------------------
\* FastOnePathBuilder: one path extended by the cheapest next value
\* ------------------------------------------------------------------------

Bound(index) == Cardinality(nexts_[index]) = 1
Value(index) == CHOOSE value \in nexts_[index] : TRUE

\* The largest evaluation, kint64max of the source; evaluations are only
\* compared.
kint64max == 2147483647

\* evaluator_->Run(index, value) for the evaluators of the shape of
\* GetFirstSolutionCost: a cost below nodes_ and kint64max from there on.
\* Evaluator 0 prefers the small values and evaluator 1 the large ones.
PathEvaluators == {0, 1}
RunEvaluator(index, value) ==
  IF value < nodes_
  THEN IF evaluator_ = 0 THEN value ELSE nodes_ - value
  ELSE kint64max

\* FindPathStart: the index after a bound prefix, else the last unbound index
\* no next variable can reach, else the first unbound index; -1 for none.
FindPathStart ==
  LET extend == {i \in 0..(Size - 1) :
                   /\ Bound(i)
                   /\ Value(i) < Size
                   /\ ~Bound(Value(i))}
      starts == {i \in 0..(Size - 1) :
                   /\ ~Bound(i)
                   /\ ~\E j \in 0..(Size - 1) : i \in nexts_[j]}
      unbound == {i \in 0..(Size - 1) : ~Bound(i)}
  IN IF extend # {}
     THEN Value(CHOOSE i \in extend : \A k \in extend : k <= i)
     ELSE IF starts # {}
     THEN CHOOSE i \in starts : \A k \in starts : k <= i
     ELSE IF unbound # {}
     THEN CHOOSE i \in unbound : \A k \in unbound : i <= k
     ELSE -1

\* FindCheapestValue: the value of the domain of nexts[index], not index and
\* with no next in the assignment yet, of the least evaluation; of two values
\* of the same evaluation the one iterated last wins.
FindCheapestValue(index, assignment) ==
  IF index < Size
  THEN LET values == {value \in nexts_[index] :
                        /\ value # index
                        /\ (value >= Size \/ ~Contains(assignment, NextVar(value)))}
       IN IF values = {} THEN -1
          ELSE CHOOSE best \in values :
                 \A value \in values :
                    \/ RunEvaluator(index, best) < RunEvaluator(index, value)
                    \/ /\ RunEvaluator(index, best) = RunEvaluator(index, value)
                       /\ value <= best
  ELSE -1

\* RoutingModel::GetDisjunctionIndicesFromIndex: the nodes of the disjunction
\* the index is pointed at.
GetDisjunctionIndicesFromIndex(index) ==
  IF index < Size /\ node_to_disjunction_[index] # kNoDisjunction
  THEN {disjunctions_[node_to_disjunction_[index] + 1].nodes[k] :
          k \in 1..Len(disjunctions_[node_to_disjunction_[index] + 1].nodes)}
  ELSE {}

\* The alternates the loop of Next assigns to themselves on reaching index.
AlternatesOf(index) == GetDisjunctionIndicesFromIndex(index) \ {index}

\* The while loop of Next from index: the assignment built and the indices
\* the path went through.
RECURSIVE ExtendPath(_, _, _)
ExtendPath(index, assignment, path) ==
  LET next == FindCheapestValue(index, assignment) IN
  IF next < 0 THEN [assignment |-> assignment, path |-> path]
  ELSE LET linked == SetValue(assignment, NextVar(index), next)
           alternates == AlternatesOf(next)
           looped == [x \in DOMAIN linked \cup {NextVar(a) : a \in alternates} |->
                        IF \E a \in alternates : x = NextVar(a)
                        THEN x[2] ELSE linked[x]]
       IN ExtendPath(next, looped, Append(path, next))

\* The last loop of Next: a next not in the assignment is added and made to
\* loop to itself when its domain allows.  An element added without a value
\* holds the range of its variable: the value of a bound variable, and for
\* an unbound one nothing a Restore would change, which is not recorded.
MakeUnassignedLoop(assignment) ==
  LET added == {i \in 0..(Size - 1) :
                  /\ ~Contains(assignment, NextVar(i))
                  /\ (i \in nexts_[i] \/ Bound(i))}
  IN [x \in DOMAIN assignment \cup {NextVar(i) : i \in added} |->
        IF x \in DOMAIN assignment THEN assignment[x]
        ELSE IF x[2] \in nexts_[x[2]] THEN x[2] ELSE Value(x[2])]

\* FastOnePathBuilder(model, evaluator).
FastOnePathBuilder(evaluator) ==
  /\ evaluator_' = evaluator
  /\ call' = [op |-> "FastOnePathBuilder"]
  /\ UNCHANGED <<assignment_, nexts_>>

\* FastOnePathBuilder::Next.  accepted says whether the constraints of the
\* model let Restore through; a value outside its domain never does.
FastOnePathBuilderNext(accepted) ==
  LET index == FindPathStart IN
  /\ UNCHANGED evaluator_
  /\ IF index < 0
     THEN /\ call' = [op |-> "Next", started |-> FALSE]
          /\ UNCHANGED <<assignment_, nexts_>>
     ELSE LET built == ExtendPath(index, <<>>, <<index>>)
              assignment == MakeUnassignedLoop(built.assignment)
              restored == /\ accepted
                          /\ \A x \in DOMAIN assignment : assignment[x] \in nexts_[x[2]]
          IN /\ assignment_' = assignment
             /\ nexts_' = IF restored
                          THEN [i \in DOMAIN nexts_ |->
                                  IF Contains(assignment, NextVar(i))
                                  THEN {assignment[NextVar(i)]} ELSE nexts_[i]]
                          ELSE nexts_
             /\ call' = [op |-> "Next", started |-> TRUE, index |-> index,
                         path |-> built.path, restored |-> restored]

\* ------------------------------------------------------------------------
\* SpecFastPath: a model of one vehicle from depot 0 and three visit nodes;
\* the caller declares disjunctions, the search removes values from the
\* domains of the next variables, and a FastOnePathBuilder is made and run
\* ------------------------------------------------------------------------
FastPathConfig == [nodes |-> 4, vehicles |-> 1, start_end |-> << <<0, 0>> >>]

\* At most MaxPathDisjunctions disjunctions are declared and at most
\* MaxRemoved values are removed from the domains.
MaxPathDisjunctions == 2
MaxRemoved == 3

PathDisjunctionNodes == {<<1, 2>>, <<2, 3>>, <<3>>}

\* The domains CloseModel leaves: every index but the start, and the end.
PathValues == {value \in 0..Size : ~IsStart(value)}

Removed ==
  Cardinality({p \in (0..(Size - 1)) \X PathValues : p[2] \notin nexts_[p[1]]})

InitFastPathSpec ==
  /\ InitIndex(FastPathConfig)
  /\ InitCost
  /\ InitLife
  /\ time_limit_ms_ = 0
  /\ InitDom
  /\ InitFilter
  /\ InitFzSolver
  /\ InitPresolver
  /\ InitLimits
  /\ InitDisjunctionFilter
  /\ InitCumulFilter
  /\ InitRouteConstructor
  /\ InitOperator
  /\ nexts_ = [i \in 0..(Size - 1) |-> PathValues]
  /\ assignment_ = <<>>
  /\ args = NoCall
  /\ call = NoCall

FastPathFrame ==
  UNCHANGED <<indexVars, routeConstructorVars, disjunctionFilterVars, limitVars, costVars,
              domVars, filterVars, opVars, fzVars, preVars, args, cumuls_, accept_pc_,
              touched_paths_, accept_i_, path_node_, path_cumul_>>

DoAddPathDisjunction ==
  /\ FastPathFrame
  /\ call.op \in {"none", "AddDisjunction"}
  /\ Len(disjunctions_) < MaxPathDisjunctions
  /\ \E nodes \in PathDisjunctionNodes, penalty \in {kNoPenalty, 0} :
       AddDisjunctionInternal(nodes, penalty)
  /\ UNCHANGED <<nexts_, evaluator_, assignment_>>

\* The search before the builder: a value leaves the domain of a next.
DoRemoveValue ==
  /\ FastPathFrame
  /\ call.op \in {"none", "AddDisjunction", "RemoveValue"}
  /\ Removed < MaxRemoved
  /\ \E index \in 0..(Size - 1) :
       \E value \in nexts_[index] :
          /\ nexts_[index] # {value}
          /\ nexts_' = [nexts_ EXCEPT ![index] = @ \ {value}]
          /\ call' = [op |-> "RemoveValue", index |-> index, value |-> value]
  /\ UNCHANGED <<lifeVars, evaluator_, assignment_>>

DoFastOnePathBuilder ==
  /\ FastPathFrame
  /\ call.op \in {"none", "AddDisjunction", "RemoveValue"}
  /\ \E evaluator \in PathEvaluators : FastOnePathBuilder(evaluator)
  /\ UNCHANGED lifeVars

DoFastOnePathBuilderNext ==
  /\ FastPathFrame
  /\ call.op = "FastOnePathBuilder"
  /\ \E accepted \in BOOLEAN : FastOnePathBuilderNext(accepted)
  /\ UNCHANGED lifeVars

NextFastPath ==
  \/ DoAddPathDisjunction
  \/ DoRemoveValue
  \/ DoFastOnePathBuilder
  \/ DoFastOnePathBuilderNext

SpecFastPath == InitFastPathSpec /\ [][NextFastPath]_vars

\* The nodes of disjunction d (from 1) the path of the last run went through.
OnBuiltPath(d) ==
  {disjunctions_[d].nodes[k] : k \in 1..Len(disjunctions_[d].nodes)}
    \cap {call.path[k] : k \in 1..Len(call.path)}

\* Every node of disjunction d but those of on is assigned to itself.
OthersLoop(d, on) ==
  \A k \in 1..Len(disjunctions_[d].nodes) :
     LET node == disjunctions_[d].nodes[k] IN
     node \notin on =>
       /\ Contains(assignment_, NextVar(node))
       /\ assignment_[NextVar(node)] = node

\* C26: in the assignment built by a run of the fast-one-path builder, at
\* most one node of any disjunction lies on the built path, and every other
\* node of that disjunction is assigned to itself.
C26_OneNodePerDisjunction ==
  (call.op = "Next" /\ call.started) =>
    \A d \in 1..Len(disjunctions_) :
       /\ Cardinality(OnBuiltPath(d)) <= 1
       /\ OnBuiltPath(d) # {} => OthersLoop(d, OnBuiltPath(d))

\* No node is in two disjunctions.
DisjointPathDisjunctions ==
  \A d \in 1..Len(disjunctions_), e \in 1..Len(disjunctions_) :
     d # e => \A k \in 1..Len(disjunctions_[d].nodes), l \in 1..Len(disjunctions_[e].nodes) :
                 disjunctions_[d].nodes[k] # disjunctions_[e].nodes[l]

\* What holds of the code: when no node is in two disjunctions and the path
\* did not start on a node of a disjunction, at most one node of any
\* disjunction is on the path and the others loop to themselves.
C26_FromOutsideDisjunctions ==
  (/\ call.op = "Next" /\ call.started
   /\ DisjointPathDisjunctions
   /\ GetDisjunctionIndicesFromIndex(call.index) = {}) =>
    \A d \in 1..Len(disjunctions_) :
       /\ Cardinality(OnBuiltPath(d)) <= 1
       /\ OnBuiltPath(d) # {} => OthersLoop(d, OnBuiltPath(d))

\* A run from outside the disjunctions whose path took a node of one.
C26_OutsideWitness ==
  /\ call.op = "Next" /\ call.started
  /\ DisjointPathDisjunctions
  /\ GetDisjunctionIndicesFromIndex(call.index) = {}
  /\ \E d \in 1..Len(disjunctions_) : OnBuiltPath(d) # {} /\ Len(disjunctions_[d].nodes) = 2

\* C27: when RoutesToAssignment returns false, the assignment the caller
\* handed in (here one just made, holding no variable) is as it was: no next
\* variable has been added and no value changed.
C27_FalseLeavesAssignment ==
  (call.op = "RoutesToAssignment" /\ call.result = "false") => assignment_ = <<>>

\* What holds of the code: a call that returns false has added only next
\* variables of start indices and of nodes the routes list, each with the
\* index of a listed node, or the end of its vehicle, as its value.
C27_FalseLeavesPrefix ==
  (call.op = "RoutesToAssignment" /\ call.result = "false") =>
    \A x \in DOMAIN assignment_ :
       /\ \/ IsStart(x[2])
          \/ \E p \in Places : HasIndex(p) /\ IndexAt(p) = x[2]
       /\ \/ IsEnd(assignment_[x])
          \/ \E p \in Places : HasIndex(p) /\ IndexAt(p) = assignment_[x]

\* C28: a GetArcCost(i, j, c) query from the start index i of a vehicle to a
\* node that is not an end returns the evaluator's cost plus the fixed cost
\* the vehicle has at the time of the query, whatever was asked or set
\* before.
C28_QueryChargesCurrentFixedCost ==
  (/\ call.op = "GetArcCost" /\ call.cost_class >= 0
   /\ IsStart(call.i) /\ ~IsEnd(call.j))
    => call.result = Run(costs_[call.cost_class + 1], IndexToNode(call.i),
                         IndexToNode(call.j))
                     + fixed_costs_[index_to_vehicle_[call.i]]

\* The positions of values the copy loop of ExtractArrayIntElement reads
\* (0-based, i + imin - 1 for i below size), and the size it gives the
\* coefficient vector.
ElementReads(ct, domain) ==
  LET values == Arg(ct, 1).values
      imin == Max2(domain[Arg(ct, 0).var].min, 1)
      imax == IF domain[Arg(ct, 0).var].max < Len(values) + 1
              THEN domain[Arg(ct, 0).var].max ELSE Len(values) + 1
      size == imax - imin + 1
  IN [size |-> size, positions |-> {i + imin - 1 : i \in 0..(size - 1)}]

\* C30: ExtractArrayIntElement reads only positions inside the constant
\* array: whatever the domain of the index, the coefficient vector has a
\* size that is not negative and every position read is in [0, |values|).
C30_ElementReadsInsideValues ==
  (Dispatched /\ args.ct.type = "array_int_element") =>
    /\ ElementReads(args.ct, args.domain).size >= 0
    /\ \A position \in ElementReads(args.ct, args.domain).positions :
          position >= 0 /\ position < Len(Arg(args.ct, 1).values)

\* What holds of the code: while the index cannot exceed |values| the reads
\* are inside the array and the size is not negative.
C30_InsideWhenIndexFits ==
  (/\ Dispatched /\ args.ct.type = "array_int_element"
   /\ args.domain["x"].max <= Len(Arg(args.ct, 1).values)) =>
    /\ ElementReads(args.ct, args.domain).size >= 0
    /\ \A position \in ElementReads(args.ct, args.domain).positions :
          position >= 0 /\ position < Len(Arg(args.ct, 1).values)

====
